---- MODULE Spec2Model ----
(***************************************************************************)
(* evcojs: the CQRS / event-sourcing dispatch engine.                      *)
(*                                                                         *)
(* The model follows the current engine source (src/unnamed/part_000,      *)
(* lines 309-685): five process-wide registries and a default source, the  *)
(* registration functions, and the two asynchronous pipelines              *)
(* handleCommand and createState.  Collaborator functions (command         *)
(* handlers, state rebuilders, upcasters, event handlers, state loaders)   *)
(* are named by identifiers; a state is the sequence of rebuilder          *)
(* applications that produced it (a free interpretation), and every call   *)
(* keeps the trace of the collaborator invocations it made.                *)
(*                                                                         *)
(* Seven specifications: Spec, one caller and every registration function; *)
(* SpecReplay, two callers of createState over registries fixed at         *)
(* startup; SpecLibrary, the README's library example with its event       *)
(* store, including event handlers that are async functions;               *)
(* SpecConcurrent, two callers overlapping handleCommand and createState   *)
(* calls over fixed registries; SpecKeys, contexts and types that contain  *)
(* the separator of the registration key; SpecUpcast, an application       *)
(* whose stored events are upcast; SpecRoundTrip, the library example      *)
(* with a caller that borrows and a caller that queries.                   *)
(***************************************************************************)
EXTENDS Integers, Sequences, FiniteSets, TLC

VARIABLES
    source,         \* let source                      (part_000:439)
    commands,       \* Map<string, CommandHandler>     (part_000:440)
    stateRebuilder, \* Map<string, StateRebuilder>     (part_000:441)
    eventHandler,   \* Map<string, EventHandler[]>     (part_000:442)
    upcastHandler,  \* Map<string, UpCasthandler>      (part_000:443)
    stateLoader,    \* Map<string, StateLoaderFunction>(part_000:444)
    calls,          \* the in-flight / last handleCommand or createState call of each caller
    regError,       \* the error thrown by the most recent registration call, or NoError
    firstCommand,   \* history: the arguments of the first registerCommandHandler call per type
    ops,            \* number of API calls (registrations and dispatches) made so far
    uuids,          \* number of identifiers randomUUID() has handed out
    clock,          \* the current instant (new Date())
    issued,         \* history: the identifiers randomUUID() has handed out
    eventStore,     \* the application's event store          (README.md:233)
    pending,        \* promises returned by event handlers, not yet settled
    unhandled       \* rejected promises of event handlers (no one awaits them)

registries == <<source, commands, stateRebuilder, eventHandler, upcastHandler, stateLoader>>
world == <<eventStore, pending, unhandled>>
vars == <<source, commands, stateRebuilder, eventHandler, upcastHandler, stateLoader,
          calls, regError, firstCommand, ops, uuids, clock, issued, world>>

----------------------------------------------------------------------------
(* Bounds of the model. *)

MaxOps == 4         \* API calls (registrations, setSource, dispatches) per behaviour
MaxHistory == 2     \* length of the event sequence a state loader returns

----------------------------------------------------------------------------
(* The universe the inputs are drawn from. *)

Absent == "<absent>"            \* an attribute that is undefined on an object
NullState == <<>>               \* the state null: no rebuilder has been applied
NoError == "none"
DefaultSource == "CQRS_DEFAULTSOURCE"

Contexts == {"A", "B"}
CommandTypes == {"c1"}
EventTypes == {"X", "Y"}
UpcastTypes == {"X"}             \* the event types that have an older version
Procs == {"p1", "p2"}

CommandHandlerFns == {"emitTwo", "borrow"}
RebuilderFns == {"r1", "r2"}
UpcasterFns == {"u1", "u2"}
EventHandlerFns == {"e1", "e2", "eThrow"}
LoaderFns == {"l1", "l2"}
Sources == {"S1"}
SubjectLists == {<<"/b/1">>}
CommandData == {"d"}

----------------------------------------------------------------------------
(* Map<K, V> as a function whose domain is the set of keys present. *)

EmptyMap == [k \in {} |-> Absent]
Has(m, k) == k \in DOMAIN m
MapSet(m, k, v) == [x \in DOMAIN m \cup {k} |-> IF x = k THEN v ELSE m[x]]

(* createKey(context, type): `[${context}|${type}]` *)
createKey(context, type) == "[" \o context \o "|" \o type \o "]"

----------------------------------------------------------------------------
(* Registration. Each is one synchronous call. *)

CanRegister == ops < MaxOps

(* Variant: setting the source starts the event handler registry afresh. *)
setSourceClears(src) ==
    /\ CanRegister
    /\ source' = src
    /\ eventHandler' = EmptyMap
    /\ regError' = NoError
    /\ ops' = ops + 1
    /\ UNCHANGED <<commands, stateRebuilder, upcastHandler, stateLoader,
                   calls, firstCommand, uuids, clock, issued, world>>

setSource(src) ==
    /\ CanRegister
    /\ source' = src
    /\ regError' = NoError
    /\ ops' = ops + 1
    /\ UNCHANGED <<commands, stateRebuilder, eventHandler, upcastHandler, stateLoader,
                   calls, firstCommand, uuids, clock, issued, world>>

(* Variant: a second registration replaces the upcaster of the key. *)
registerUpcasterOverwrite(type, context, func) ==
    /\ CanRegister
    /\ LET key == createKey(context, type) IN
       /\ upcastHandler' = MapSet(upcastHandler, key,
                                  [type |-> type, context |-> context, upcast |-> func])
       /\ regError' = IF Has(upcastHandler, key)
                      THEN "upcaster for " \o key \o " already exists"
                      ELSE NoError
    /\ ops' = ops + 1
    /\ UNCHANGED <<source, commands, stateRebuilder, eventHandler, stateLoader,
                   calls, firstCommand, uuids, clock, issued, world>>

registerUpcaster(type, context, func) ==
    /\ CanRegister
    /\ LET key == createKey(context, type) IN
       IF Has(upcastHandler, key)
       THEN /\ regError' = "upcaster for " \o key \o " already exists"
            /\ UNCHANGED upcastHandler
       ELSE /\ upcastHandler' = MapSet(upcastHandler, key,
                                       [type |-> type, context |-> context, upcast |-> func])
            /\ regError' = NoError
    /\ ops' = ops + 1
    /\ UNCHANGED <<source, commands, stateRebuilder, eventHandler, stateLoader,
                   calls, firstCommand, uuids, clock, issued, world>>

registerEventhandler(type, func) ==
    /\ CanRegister
    /\ LET list == IF Has(eventHandler, type) THEN eventHandler[type] ELSE <<>> IN
       eventHandler' = MapSet(eventHandler, type,
                              Append(list, [type |-> type, eventHandler |-> func]))
    /\ regError' = NoError
    /\ ops' = ops + 1
    /\ UNCHANGED <<source, commands, stateRebuilder, upcastHandler, stateLoader,
                   calls, firstCommand, uuids, clock, issued, world>>

(* Variant: a loader registered for a context takes over the calls of that
   context that are waiting for their loader; their load is issued again. *)
registerStateLoadingFunctionLive(context, load) ==
    /\ CanRegister
    /\ stateLoader' = MapSet(stateLoader, context, [load |-> load, context |-> context])
    /\ calls' = [p \in Procs |->
                   IF calls[p].pc = "awaitLoad" /\ calls[p].context = context
                   THEN [calls[p] EXCEPT !.trace = <<[calls[p].trace[1] EXCEPT !.fn = load]>>]
                   ELSE calls[p]]
    /\ regError' = NoError
    /\ ops' = ops + 1
    /\ UNCHANGED <<source, commands, stateRebuilder, eventHandler, upcastHandler,
                   firstCommand, uuids, clock, issued, world>>

(* Variant: the first loader registered for a context stays. *)
registerStateLoadingFunctionKeepFirst(context, load) ==
    /\ CanRegister
    /\ stateLoader' = IF Has(stateLoader, context) THEN stateLoader
                      ELSE MapSet(stateLoader, context, [load |-> load, context |-> context])
    /\ regError' = NoError
    /\ ops' = ops + 1
    /\ UNCHANGED <<source, commands, stateRebuilder, eventHandler, upcastHandler,
                   calls, firstCommand, uuids, clock, issued, world>>

registerStateLoadingFunction(context, load) ==
    /\ CanRegister
    /\ stateLoader' = MapSet(stateLoader, context, [load |-> load, context |-> context])
    /\ regError' = NoError
    /\ ops' = ops + 1
    /\ UNCHANGED <<source, commands, stateRebuilder, eventHandler, upcastHandler,
                   calls, firstCommand, uuids, clock, issued, world>>

registerCommandHandlerOverwrite(type, context, commandHandler) ==
    /\ CanRegister
    /\ commands' = MapSet(commands, type,
                          [type |-> type, context |-> context, handle |-> commandHandler])
    /\ regError' = IF Has(commands, type)
                   THEN "Command handler for " \o type \o " already exists"
                   ELSE NoError
    /\ firstCommand' = IF Has(firstCommand, type) THEN firstCommand
                       ELSE MapSet(firstCommand, type,
                                   [type |-> type, context |-> context, handle |-> commandHandler])
    /\ ops' = ops + 1
    /\ UNCHANGED <<source, stateRebuilder, eventHandler, upcastHandler, stateLoader,
                   calls, uuids, clock, issued, world>>

registerCommandHandler(type, context, commandHandler) ==
    /\ CanRegister
    /\ IF Has(commands, type)
       THEN /\ regError' = "Command handler for " \o type \o " already exists"
            /\ UNCHANGED commands
       ELSE /\ commands' = MapSet(commands, type,
                                  [type |-> type, context |-> context, handle |-> commandHandler])
            /\ regError' = NoError
    /\ firstCommand' = IF Has(firstCommand, type) THEN firstCommand
                       ELSE MapSet(firstCommand, type,
                                   [type |-> type, context |-> context, handle |-> commandHandler])
    /\ ops' = ops + 1
    /\ UNCHANGED <<source, stateRebuilder, eventHandler, upcastHandler, stateLoader,
                   calls, uuids, clock, issued, world>>

(* Variant: a second registration replaces the rebuilder of the key. *)
registerStateRebuilderOverwrite(type, context, builderHandler) ==
    /\ CanRegister
    /\ LET key == createKey(context, type) IN
       /\ stateRebuilder' = MapSet(stateRebuilder, key,
                                   [type |-> type, context |-> context,
                                    stateRebuilder |-> builderHandler])
       /\ regError' = IF Has(stateRebuilder, key)
                      THEN "State rebuilder for " \o key \o " already exists"
                      ELSE NoError
    /\ ops' = ops + 1
    /\ UNCHANGED <<source, commands, eventHandler, upcastHandler, stateLoader,
                   calls, firstCommand, uuids, clock, issued, world>>

registerStateRebuilder(type, context, builderHandler) ==
    /\ CanRegister
    /\ LET key == createKey(context, type) IN
       IF Has(stateRebuilder, key)
       THEN /\ regError' = "State rebuilder for " \o key \o " already exists"
            /\ UNCHANGED stateRebuilder
       ELSE /\ stateRebuilder' = MapSet(stateRebuilder, key,
                                        [type |-> type, context |-> context,
                                         stateRebuilder |-> builderHandler])
            /\ regError' = NoError
    /\ ops' = ops + 1
    /\ UNCHANGED <<source, commands, eventHandler, upcastHandler, stateLoader,
                   calls, firstCommand, uuids, clock, issued, world>>

----------------------------------------------------------------------------
(* Events, states and the collaborator functions the application registers. *)

(* A CloudEvent<T> object; an attribute the object does not have is Absent. *)
Event(type, subject, data) ==
    [type |-> type, subject |-> subject, data |-> data, source |-> Absent, id |-> Absent,
     time |-> Absent, specversion |-> Absent, ext |-> Absent]

NoEvent == Event("", "", "")

(* What a state loader can return: sequences of stored events of the known
   types. *)
StoredTypes == EventTypes
StoredEvents == {Event(t, "/b/1", "d1") : t \in StoredTypes}
RECURSIVE SeqsUpTo(_, _)
SeqsUpTo(S, n) ==
    IF n = 0 THEN {<<>>}
    ELSE LET shorter == SeqsUpTo(S, n - 1) IN
         shorter \cup {Append(s, e) : s \in {q \in shorter : Len(q) = n - 1}, e \in S}
Histories == SeqsUpTo(StoredEvents, MaxHistory)

(* One collaborator invocation, as recorded in a call's trace. *)
Entry(op, fn, context, type, event, data, state, subjects) ==
    [op |-> op, fn |-> fn, context |-> context, type |-> type, event |-> event,
     data |-> data, state |-> state, subjects |-> subjects]

(* A state rebuilder (event.data, state) => state: the new state is the old one
   extended by this application. *)
ApplyRebuilder(fn, data, state) == Append(state, [fn |-> fn, data |-> data])

(* An upcaster (event) => event, after README.md:204-214: a new object with a new
   type, the subject, and data derived from the old data. "uNext" gives its
   output a type that is spelled like a registration key. *)
ApplyUpcaster(fn, event) ==
    IF fn = "uNext" THEN Event("[B|X]", event.subject, event.data \o "+uNext")
    ELSE IF fn = "u1" THEN Event("Y", event.subject, event.data \o "+u1")
    ELSE Event("X", event.subject, event.data \o "+u2")

(* The library example. The data of a Registered event is the number of copies;
   the state, a sequence of rebuilder applications, is read as the state object
   the example's rebuilders build: onRegistered gives {amount: data.amount},
   onBookBorrowed (README.md:166-168) gives {...state, amount: state.amount - 1}. *)
Amounts == 0..3
AmountData(n) == "amount:" \o ToString(n)
ParseAmount(data) == CHOOSE n \in Amounts : AmountData(n) = data

RECURSIVE Amount(_)
Amount(state) ==
    IF state = <<>> THEN 0
    ELSE LET applied == state[Len(state)]
             before == SubSeq(state, 1, Len(state) - 1)
         IN IF applied.fn = "onRegistered" THEN ParseAmount(applied.data)
            ELSE IF applied.fn = "onBookBorrowed" THEN Amount(before) - 1
            ELSE Amount(before)

(* A command handler (command.data, state) => CloudEvent[], which may throw.
   "borrow" is README.md:149-163 over uninterpreted states and "borrowBook" the
   same handler over the library's states; "emitKeyed" returns one event of a
   type that is spelled like a registration key; "emitTwo" returns two events,
   the second with its own source, id, time, specversion and an extension
   attribute. *)
ApplyCommandHandler(fn, data, state) ==
    IF fn = "emitKeyed"
    THEN [threw |-> FALSE, error |-> NoError, events |-> <<Event("[A|X]", "/b/1", data)>>]
    ELSE IF fn = "borrowBook"
    THEN IF state = NullState \/ Amount(state) <= 0
         THEN [threw |-> TRUE, error |-> "No copy available anymore", events |-> <<>>]
         ELSE [threw |-> FALSE, error |-> NoError,
               events |-> <<Event("Borrowed", "/b/1", data)>>]
    ELSE IF fn = "borrow"
    THEN IF state = NullState
         THEN [threw |-> TRUE, error |-> "No copy available anymore", events |-> <<>>]
         ELSE [threw |-> FALSE, error |-> NoError, events |-> <<Event("X", "/b/1", data)>>]
    ELSE [threw |-> FALSE, error |-> NoError,
          events |-> <<Event("X", "/b/1", data),
                       [Event("Y", "/b/1", data) EXCEPT !.source = "own-source",
                            !.id = "own-id", !.time = "own-time",
                            !.specversion = "0.3", !.ext = "own-ext"]>>]

(* An event handler (event, state) => void: "eThrow" throws, the others return. *)
EventHandlerThrows(fn) == fn = "eThrow"

(* An event handler written as an async function returns a promise at once and
   does its work later: "eStoreAsync" then saves the event, "eReject" then fails. *)
EventHandlerIsAsync(fn) == fn \in {"eStoreAsync", "eReject"}
EventHandlerRejects(fn) == fn = "eReject"

(* The handlers that save the event to the event store, after README.md:241-252:
   "onBookBorrowedHandler" during the invocation, "eStoreAsync" when its promise
   settles. *)
EventHandlerStores(fn) == fn \in {"onBookBorrowedHandler", "eStoreAsync"}

(* A state loader after README.md:255-258: the stored events of the subjects. *)
stateLoading(subjects) ==
    SelectSeq(eventStore, LAMBDA event : \E i \in 1..Len(subjects) : subjects[i] = event.subject)

----------------------------------------------------------------------------
(* The pure steps of the two pipelines. *)

(* maybeUpcast(event): the event to use, and the upcaster invocation made. *)
maybeUpcast(event) ==
    IF Has(upcastHandler, event.type)
    THEN LET upcaster == upcastHandler[event.type] IN
         [event |-> ApplyUpcaster(upcaster.upcast, event),
          trace |-> <<Entry("upcast", upcaster.upcast, upcaster.context, upcaster.type,
                            event, event.data, NullState, <<>>)>>]
    ELSE [event |-> event, trace |-> <<>>]

(* Variant: an upcaster's output goes through maybeUpcast once more. *)
RECURSIVE mapMaybeUpcastTwice(_)
mapMaybeUpcastTwice(events) ==
    IF events = <<>> THEN [events |-> <<>>, trace |-> <<>>]
    ELSE LET first == maybeUpcast(Head(events))
             second == IF first.trace = <<>> THEN first ELSE maybeUpcast(first.event)
             rest == mapMaybeUpcastTwice(Tail(events))
         IN [events |-> <<second.event>> \o rest.events,
             trace |-> first.trace \o second.trace \o rest.trace]

(* events.map(maybeUpcast) *)
RECURSIVE mapMaybeUpcast(_)
mapMaybeUpcast(events) ==
    IF events = <<>> THEN [events |-> <<>>, trace |-> <<>>]
    ELSE LET first == maybeUpcast(Head(events))
             rest == mapMaybeUpcast(Tail(events))
         IN [events |-> <<first.event>> \o rest.events, trace |-> first.trace \o rest.trace]

(* Variant: the rebuilder is found by the event type alone, whatever context it
   was registered for. *)
executeEventByType(context, event, state) ==
    LET keys == {k \in DOMAIN stateRebuilder : stateRebuilder[k].type = event.type} IN
    IF keys # {}
    THEN LET rebuilder == stateRebuilder[CHOOSE k \in keys : TRUE] IN
         [state |-> ApplyRebuilder(rebuilder.stateRebuilder, event.data, state),
          trace |-> <<Entry("rebuild", rebuilder.stateRebuilder, rebuilder.context,
                            rebuilder.type, event, event.data, state, <<>>)>>]
    ELSE [state |-> state, trace |-> <<>>]

(* Variant: an event without a rebuilder resets the state. *)
executeEventStrict(context, event, state) ==
    LET key == createKey(context, event.type) IN
    IF Has(stateRebuilder, key) /\ stateRebuilder[key].context = context
    THEN LET rebuilder == stateRebuilder[key] IN
         [state |-> ApplyRebuilder(rebuilder.stateRebuilder, event.data, state),
          trace |-> <<Entry("rebuild", rebuilder.stateRebuilder, rebuilder.context,
                            rebuilder.type, event, event.data, state, <<>>)>>]
    ELSE [state |-> NullState, trace |-> <<>>]

(* executeEvent(context, event, state): the new state, and the rebuilder
   invocation made. *)
executeEvent(context, event, state) ==
    LET key == createKey(context, event.type) IN
    IF Has(stateRebuilder, key) /\ stateRebuilder[key].context = context
    THEN LET rebuilder == stateRebuilder[key] IN
         [state |-> ApplyRebuilder(rebuilder.stateRebuilder, event.data, state),
          trace |-> <<Entry("rebuild", rebuilder.stateRebuilder, rebuilder.context,
                            rebuilder.type, event, event.data, state, <<>>)>>]
    ELSE [state |-> state, trace |-> <<>>]

(* for (const event of events) state = executeEvent(context, event, state) *)
RECURSIVE foldEvents(_, _, _)
foldEvents(context, events, state) ==
    IF events = <<>> THEN [state |-> state, trace |-> <<>>]
    ELSE LET first == executeEvent(context, Head(events), state)
             rest == foldEvents(context, Tail(events), first.state)
         IN [state |-> rest.state, trace |-> first.trace \o rest.trace]

(* Variant: source, id and time are always the defaults. *)
RECURSIVE materializeOverwrite(_, _)
materializeOverwrite(events, n) ==
    IF events = <<>> THEN <<>>
    ELSE LET event == Head(events)
             fresh == event.id = Absent
             cloudEvent ==
                 [event EXCEPT
                    !.source = source,
                    !.id = "uuid-" \o ToString(n + 1),
                    !.time = "now-" \o ToString(clock),
                    !.specversion = "1.0"]
         IN <<cloudEvent>> \o materializeOverwrite(Tail(events), IF fresh THEN n + 1 ELSE n)

(* Variant: the materialization of the older engine (src/src/index.ts:146-155),
   which copies source, subject, type, id and data only. *)
RECURSIVE materializeFieldwise(_, _)
materializeFieldwise(events, n) ==
    IF events = <<>> THEN <<>>
    ELSE LET event == Head(events)
             fresh == event.id = Absent
             cloudEvent ==
                 [Event(event.type, event.subject, event.data) EXCEPT
                    !.source = IF event.source = Absent THEN source ELSE event.source,
                    !.id = IF fresh THEN "uuid-" \o ToString(n + 1) ELSE event.id,
                    !.time = IF event.time = Absent THEN "now-" \o ToString(clock)
                             ELSE event.time]
         IN <<cloudEvent>> \o materializeFieldwise(Tail(events), IF fresh THEN n + 1 ELSE n)

(* Variant: the materialized event does not carry the data of the new event. *)
RECURSIVE materializeNoData(_, _)
materializeNoData(events, n) ==
    IF events = <<>> THEN <<>>
    ELSE LET event == Head(events)
             fresh == event.id = Absent
             cloudEvent ==
                 [event EXCEPT
                    !.source = IF event.source = Absent THEN source ELSE event.source,
                    !.id = IF fresh THEN "uuid-" \o ToString(n + 1) ELSE event.id,
                    !.time = IF event.time = Absent THEN "now-" \o ToString(clock)
                             ELSE event.time,
                    !.specversion = "1.0",
                    !.data = Absent]
         IN <<cloudEvent>> \o materializeNoData(Tail(events), IF fresh THEN n + 1 ELSE n)

(* newEvents.map(event => ({...event, source: event.source ?? source,
   id: event.id ?? randomUUID(), time: event.time ?? new Date().toISOString(),
   specversion: "1.0", data: event.data})); n identifiers were handed out before. *)
RECURSIVE materialize(_, _)
materialize(events, n) ==
    IF events = <<>> THEN <<>>
    ELSE LET event == Head(events)
             fresh == event.id = Absent
             cloudEvent ==
                 [event EXCEPT
                    !.source = IF event.source = Absent THEN source ELSE event.source,
                    !.id = IF fresh THEN "uuid-" \o ToString(n + 1) ELSE event.id,
                    !.time = IF event.time = Absent THEN "now-" \o ToString(clock)
                             ELSE event.time,
                    !.specversion = "1.0"]
         IN <<cloudEvent>> \o materialize(Tail(events), IF fresh THEN n + 1 ELSE n)

(* The number of randomUUID() calls materialize makes. *)
freshIds(events) == Len(SelectSeq(events, LAMBDA e : e.id = Absent))

(* Variant: the handlers of a type are invoked last-registered first. *)
RECURSIVE invokeHandlersReversed(_, _, _)
invokeHandlersReversed(list, cloudEvent, state) ==
    IF list = <<>> THEN [trace |-> <<>>, threw |-> FALSE]
    ELSE LET eh == list[Len(list)]
             entry == Entry("eventHandler", eh.eventHandler, "", eh.type, cloudEvent,
                            cloudEvent.data, state, <<>>)
         IN IF EventHandlerThrows(eh.eventHandler)
            THEN [trace |-> <<entry>>, threw |-> TRUE]
            ELSE LET rest == invokeHandlersReversed(SubSeq(list, 1, Len(list) - 1),
                                                    cloudEvent, state)
                 IN [trace |-> <<entry>> \o rest.trace, threw |-> rest.threw]

(* list.forEach(eh => eh.eventHandler(cloudEvent, state)): the invocations made,
   up to and including the first handler that throws. *)
RECURSIVE invokeHandlers(_, _, _)
invokeHandlers(list, cloudEvent, state) ==
    IF list = <<>> THEN [trace |-> <<>>, threw |-> FALSE]
    ELSE LET eh == Head(list)
             entry == Entry("eventHandler", eh.eventHandler, "", eh.type, cloudEvent,
                            cloudEvent.data, state, <<>>)
         IN IF EventHandlerThrows(eh.eventHandler)
            THEN [trace |-> <<entry>>, threw |-> TRUE]
            ELSE LET rest == invokeHandlers(Tail(list), cloudEvent, state)
                 IN [trace |-> <<entry>> \o rest.trace, threw |-> rest.threw]

(* Variant: only the events of a type that some state rebuilder is registered
   for are handed to event handlers. *)
RECURSIVE fanOutRebuiltTypes(_, _)
fanOutRebuiltTypes(cloudEvents, state) ==
    IF cloudEvents = <<>> THEN [trace |-> <<>>, threw |-> FALSE]
    ELSE LET cloudEvent == Head(cloudEvents)
             rebuilt == \E k \in DOMAIN stateRebuilder :
                           stateRebuilder[k].type = cloudEvent.type
             first == IF rebuilt /\ Has(eventHandler, cloudEvent.type)
                      THEN invokeHandlers(eventHandler[cloudEvent.type], cloudEvent, state)
                      ELSE [trace |-> <<>>, threw |-> FALSE]
         IN IF first.threw THEN first
            ELSE LET rest == fanOutRebuiltTypes(Tail(cloudEvents), state)
                 IN [trace |-> first.trace \o rest.trace, threw |-> rest.threw]

(* Variant: the materialized events are handed to no event handler. *)
fanOutSkipped(cloudEvents, state) == [trace |-> <<>>, threw |-> FALSE]

(* for (const cloudEvent of cloudEvents) if (eventHandler.has(cloudEvent.type)) ... *)
RECURSIVE fanOut(_, _)
fanOut(cloudEvents, state) ==
    IF cloudEvents = <<>> THEN [trace |-> <<>>, threw |-> FALSE]
    ELSE LET cloudEvent == Head(cloudEvents)
             first == IF Has(eventHandler, cloudEvent.type)
                      THEN invokeHandlers(eventHandler[cloudEvent.type], cloudEvent, state)
                      ELSE [trace |-> <<>>, threw |-> FALSE]
         IN IF first.threw THEN first
            ELSE LET rest == fanOut(Tail(cloudEvents), state)
                 IN [trace |-> first.trace \o rest.trace, threw |-> rest.threw]

----------------------------------------------------------------------------
(* Calls. handleCommand and createState are async functions: a call runs
   synchronously up to its first await, and each continuation is one step. *)

NoCommand == [type |-> "", subjects |-> <<>>, data |-> ""]
NoHandler == [type |-> "", context |-> "", handle |-> ""]
Commands == [type : CommandTypes, subjects : SubjectLists, data : CommandData]

IdleCall ==
    [op |-> "none", pc |-> "idle", command |-> NoCommand, context |-> "",
     subjects |-> <<>>, handler |-> NoHandler, loaded |-> <<>>, folded |-> <<>>,
     state0 |-> NullState, newEvents |-> <<>>, cloudEvents |-> <<>>,
     state |-> NullState, trace |-> <<>>, result |-> NullState, error |-> NoError]

CanCall(p) == ops < MaxOps /\ calls[p].pc \in {"idle", "done", "failed"}

(* Variant: a context without a state loader is an error. *)
createStateBeginStrict(call, context, subjects) ==
    IF Has(stateLoader, context)
    THEN LET stateLoadingFunction == stateLoader[context] IN
         [call EXCEPT !.context = context, !.subjects = subjects, !.pc = "awaitLoad",
                      !.trace = <<Entry("load", stateLoadingFunction.load,
                                        stateLoadingFunction.context, "", NoEvent, "",
                                        NullState, subjects)>>]
    ELSE [call EXCEPT !.context = context, !.subjects = subjects, !.pc = "failed",
                      !.error = "no state loader"]

(* createState up to `await stateLoadingFunction.load(subjects)`; without a loader
   the events are [] and the function runs to its return. *)
createStateBegin(call, context, subjects) ==
    IF Has(stateLoader, context)
    THEN LET stateLoadingFunction == stateLoader[context] IN
         [call EXCEPT !.context = context, !.subjects = subjects, !.pc = "awaitLoad",
                      !.trace = <<Entry("load", stateLoadingFunction.load,
                                        stateLoadingFunction.context, "", NoEvent, "",
                                        NullState, subjects)>>]
    ELSE [call EXCEPT !.context = context, !.subjects = subjects, !.pc = "awaitState",
                      !.state = NullState]

(* Variant: the engine keeps the state of the last finished reconstruction of a
   context and folds the next one on top of it. *)
createStateEndCached(call, events) ==
    LET upcast == mapMaybeUpcast(events)
        earlier == {q \in Procs : calls[q].pc = "done" /\ calls[q].context = call.context}
        cached == IF earlier = {} THEN NullState ELSE calls[CHOOSE q \in earlier : TRUE].state
        folded == foldEvents(call.context, upcast.events, cached)
    IN [call EXCEPT !.loaded = events, !.folded = upcast.events, !.pc = "awaitState",
                    !.state = folded.state,
                    !.trace = call.trace \o upcast.trace \o folded.trace]

(* Variant: the upcast events are written back into the array the loader
   returned. *)
createStateEndInPlace(call, events) ==
    LET upcast == mapMaybeUpcast(events)
        folded == foldEvents(call.context, upcast.events, NullState)
    IN [call EXCEPT !.loaded = upcast.events, !.folded = upcast.events,
                    !.pc = "awaitState", !.state = folded.state,
                    !.trace = call.trace \o upcast.trace \o folded.trace]

(* createState from the loader's answer to its return. *)
createStateEnd(call, events) ==
    LET upcast == mapMaybeUpcast(events)
        folded == foldEvents(call.context, upcast.events, NullState)
    IN [call EXCEPT !.loaded = events, !.folded = upcast.events, !.pc = "awaitState",
                    !.state = folded.state,
                    !.trace = call.trace \o upcast.trace \o folded.trace]

(* A createState that was called directly returns its state to the caller. *)
returnState(call) == [call EXCEPT !.pc = "done", !.result = call.state]

(* Variants of handleCommandEnd: "noReturn" ends without returning the state,
   "swallow" treats a throwing command handler as one that returned no events,
   "staleState" hands the event handlers the state as it was before the new
   events were folded, "handlersFirst" invokes the event handlers before the new
   events are folded. *)
handleCommandEndVariant(call, variant) ==
    LET commandHandler == call.handler
        handled == ApplyCommandHandler(commandHandler.handle, call.command.data, call.state)
        handleEntry == Entry("handle", commandHandler.handle, commandHandler.context,
                             commandHandler.type, NoEvent, call.command.data, call.state,
                             <<>>)
        newEvents == handled.events
        folded == foldEvents(commandHandler.context, newEvents, call.state)
        cloudEvents == materialize(newEvents, uuids)
        fan == fanOut(cloudEvents, IF variant = "staleState" THEN call.state ELSE folded.state)
    IN IF handled.threw /\ variant # "swallow"
       THEN [call EXCEPT !.pc = "failed", !.error = handled.error, !.state0 = call.state,
                         !.trace = call.trace \o <<handleEntry>>]
       ELSE [call EXCEPT !.pc = IF fan.threw THEN "failed" ELSE "done",
                         !.error = IF fan.threw THEN "event handler failed" ELSE NoError,
                         !.state0 = call.state,
                         !.newEvents = newEvents,
                         !.cloudEvents = cloudEvents,
                         !.state = folded.state,
                         !.result = IF fan.threw \/ variant = "noReturn" THEN NullState
                                    ELSE folded.state,
                         !.trace = IF variant = "handlersFirst"
                                   THEN call.trace \o <<handleEntry>> \o fan.trace
                                        \o folded.trace
                                   ELSE call.trace \o <<handleEntry>> \o folded.trace
                                        \o fan.trace]

handleCommandEndNoReturn(call) == handleCommandEndVariant(call, "noReturn")
handleCommandEndSwallow(call) == handleCommandEndVariant(call, "swallow")
handleCommandEndStaleState(call) == handleCommandEndVariant(call, "staleState")
handleCommandEndHandlersFirst(call) == handleCommandEndVariant(call, "handlersFirst")

(* Variant: the reconstructed state is kept in one module-level variable, so a
   call that resumes finds there the state another call has left in it. *)
handleCommandEndShared(call) ==
    LET others == {q \in Procs : /\ calls[q] # call
                                 /\ calls[q].pc \in {"awaitState", "done"}}
        shared == IF others = {} THEN call.state ELSE calls[CHOOSE q \in others : TRUE].state
    IN handleCommandEndVariant([call EXCEPT !.state = shared], "none")

(* handleCommand from `await createState(...)` to its return. *)
handleCommandEnd(call) ==
    LET commandHandler == call.handler
        handled == ApplyCommandHandler(commandHandler.handle, call.command.data, call.state)
        handleEntry == Entry("handle", commandHandler.handle, commandHandler.context,
                             commandHandler.type, NoEvent, call.command.data, call.state,
                             <<>>)
        newEvents == handled.events
        folded == foldEvents(commandHandler.context, newEvents, call.state)
        cloudEvents == materialize(newEvents, uuids)
        fan == fanOut(cloudEvents, folded.state)
    IN IF handled.threw
       THEN [call EXCEPT !.pc = "failed", !.error = handled.error, !.state0 = call.state,
                         !.trace = call.trace \o <<handleEntry>>]
       ELSE [call EXCEPT !.pc = IF fan.threw THEN "failed" ELSE "done",
                         !.error = IF fan.threw THEN "event handler failed" ELSE NoError,
                         !.state0 = call.state,
                         !.newEvents = newEvents,
                         !.cloudEvents = cloudEvents,
                         !.state = folded.state,
                         !.result = IF fan.threw THEN NullState ELSE folded.state,
                         !.trace = call.trace \o <<handleEntry>> \o folded.trace
                                   \o fan.trace]

(* Variant: an unknown command type is an error. *)
handleCommandStrict(p, command) ==
    /\ CanCall(p)
    /\ LET call == [IdleCall EXCEPT !.op = "handleCommand", !.command = command] IN
       IF Has(commands, command.type)
       THEN LET commandHandler == commands[command.type] IN
            calls' = [calls EXCEPT ![p] =
                        createStateBegin([call EXCEPT !.handler = commandHandler],
                                         commandHandler.context, command.subjects)]
       ELSE calls' = [calls EXCEPT ![p] =
                        [call EXCEPT !.pc = "failed", !.error = "unknown command"]]
    /\ ops' = ops + 1
    /\ UNCHANGED <<registries, regError, firstCommand, uuids, clock, issued, world>>

(* handleCommand(command) up to its first await (or to its return, for a command
   type without a handler). *)
handleCommand(p, command) ==
    /\ CanCall(p)
    /\ LET call == [IdleCall EXCEPT !.op = "handleCommand", !.command = command] IN
       IF Has(commands, command.type)
       THEN LET commandHandler == commands[command.type] IN
            calls' = [calls EXCEPT ![p] =
                        createStateBegin([call EXCEPT !.handler = commandHandler],
                                         commandHandler.context, command.subjects)]
       ELSE calls' = [calls EXCEPT ![p] = [call EXCEPT !.pc = "done", !.result = NullState]]
    /\ ops' = ops + 1
    /\ UNCHANGED <<registries, regError, firstCommand, uuids, clock, issued, world>>

createState(p, context, subjects) ==
    /\ CanCall(p)
    /\ LET call == createStateBegin([IdleCall EXCEPT !.op = "createState"], context, subjects)
       IN calls' = [calls EXCEPT ![p] =
                      IF call.pc = "awaitState" THEN returnState(call) ELSE call]
    /\ ops' = ops + 1
    /\ UNCHANGED <<registries, regError, firstCommand, uuids, clock, issued, world>>

(* The loader's promise resolves with `events`. *)
loaderResolves(p, events) ==
    /\ calls[p].pc = "awaitLoad"
    /\ LET call == createStateEnd(calls[p], events) IN
       calls' = [calls EXCEPT ![p] =
                   IF call.op = "createState" THEN returnState(call) ELSE call]
    /\ UNCHANGED <<registries, regError, firstCommand, ops, uuids, clock, issued, world>>

(* Variant: a rejected load counts as an empty history. *)
loaderRejectsSwallow(p) ==
    /\ calls[p].pc = "awaitLoad"
    /\ LET call == createStateEnd(calls[p], <<>>) IN
       calls' = [calls EXCEPT ![p] =
                   IF call.op = "createState" THEN returnState(call) ELSE call]
    /\ UNCHANGED <<registries, regError, firstCommand, ops, uuids, clock, issued, world>>

(* The loader's promise rejects. *)
loaderRejects(p) ==
    /\ calls[p].pc = "awaitLoad"
    /\ calls' = [calls EXCEPT ![p].pc = "failed", ![p].error = "loader failed"]
    /\ UNCHANGED <<registries, regError, firstCommand, ops, uuids, clock, issued, world>>

(* The event handler invocations a call made after its first `n` trace entries. *)
invokedSince(call, n) ==
    SelectSeq(SubSeq(call.trace, n + 1, Len(call.trace)), LAMBDA e : e.op = "eventHandler")

(* What the invoked handlers did before returning: the events saved by the
   synchronous handlers that ran to their end. *)
savedBy(invoked) ==
    LET saving == SelectSeq(invoked, LAMBDA e : /\ EventHandlerStores(e.fn)
                                                /\ ~EventHandlerIsAsync(e.fn))
    IN [i \in 1..Len(saving) |-> saving[i].event]

(* The promises the invoked handlers returned; forEach drops them. *)
startedBy(invoked) ==
    LET async == SelectSeq(invoked, LAMBDA e : EventHandlerIsAsync(e.fn))
    IN [i \in 1..Len(async) |-> [fn |-> async[i].fn, event |-> async[i].event]]

(* The identifiers randomUUID() returned while `call` materialized its events. *)
issuedBy(call) ==
    {call.cloudEvents[i].id : i \in {j \in 1..Len(call.newEvents) :
                                        call.newEvents[j].id = Absent}}

(* handleCommand resumes with the state createState returned. *)
resumeHandleCommand(p) ==
    /\ calls[p].pc = "awaitState"
    /\ calls[p].op = "handleCommand"
    /\ LET call == handleCommandEnd(calls[p])
           invoked == invokedSince(call, Len(calls[p].trace))
       IN /\ calls' = [calls EXCEPT ![p] = call]
          /\ uuids' = uuids + freshIds(call.newEvents)
          /\ issued' = issued \cup issuedBy(call)
          /\ eventStore' = eventStore \o savedBy(invoked)
          /\ pending' = pending \o startedBy(invoked)
    /\ clock' = clock + 1      \* time passes between dispatches
    /\ UNCHANGED <<registries, regError, firstCommand, ops, unhandled>>

(* The promise an asynchronous event handler returned settles: the handler has
   done its work, or has failed; nothing awaits the promise. *)
eventHandlerSettles(i) ==
    /\ i \in 1..Len(pending)
    /\ LET promise == pending[i] IN
       /\ eventStore' = IF EventHandlerStores(promise.fn) /\ ~EventHandlerRejects(promise.fn)
                        THEN Append(eventStore, promise.event)
                        ELSE eventStore
       /\ unhandled' = IF EventHandlerRejects(promise.fn) THEN unhandled \cup {promise}
                       ELSE unhandled
    /\ pending' = SubSeq(pending, 1, i - 1) \o SubSeq(pending, i + 1, Len(pending))
    /\ UNCHANGED <<registries, calls, regError, firstCommand, ops, uuids, clock, issued>>

----------------------------------------------------------------------------
Init ==
    /\ source = DefaultSource
    /\ commands = EmptyMap
    /\ stateRebuilder = EmptyMap
    /\ eventHandler = EmptyMap
    /\ upcastHandler = EmptyMap
    /\ stateLoader = EmptyMap
    /\ calls = [p \in Procs |-> IdleCall]
    /\ regError = NoError
    /\ firstCommand = EmptyMap
    /\ ops = 0
    /\ uuids = 0
    /\ clock = 0
    /\ issued = {}
    /\ eventStore = <<>>
    /\ pending = <<>>
    /\ unhandled = {}

Register ==
    \/ \E src \in Sources : setSource(src)
    \/ \E t \in UpcastTypes, c \in Contexts, f \in UpcasterFns : registerUpcaster(t, c, f)
    \/ \E t \in EventTypes, f \in EventHandlerFns : registerEventhandler(t, f)
    \/ \E c \in Contexts, f \in LoaderFns : registerStateLoadingFunction(c, f)
    \/ \E t \in CommandTypes, c \in Contexts, f \in CommandHandlerFns :
           registerCommandHandler(t, c, f)
    \/ \E t \in EventTypes, c \in Contexts, f \in RebuilderFns :
           registerStateRebuilder(t, c, f)

Dispatch(p) ==
    \/ \E command \in Commands : handleCommand(p, command)
    \/ \E c \in Contexts, s \in SubjectLists : createState(p, c, s)
    \/ \E events \in Histories : loaderResolves(p, events)
    \/ loaderRejects(p)
    \/ resumeHandleCommand(p)

Next == Register \/ Dispatch("p1")

Spec == Init /\ [][Next]_vars

----------------------------------------------------------------------------
(* Two callers reconstructing state. The registrations are made at startup,
   before the first call; from then on the registries are fixed and the two
   callers call createState, one after the other or overlapping. *)

NoCallYet == \A p \in Procs : calls[p].pc = "idle"

RegisterForReplay ==
    /\ NoCallYet
    /\ \/ \E t \in UpcastTypes, c \in Contexts, f \in UpcasterFns : registerUpcaster(t, c, f)
       \/ \E c \in Contexts, f \in LoaderFns : registerStateLoadingFunction(c, f)
       \/ \E t \in EventTypes, c \in Contexts, f \in RebuilderFns :
              registerStateRebuilder(t, c, f)

Replay(p) ==
    \/ \E c \in Contexts, s \in SubjectLists : createState(p, c, s)
    \/ \E events \in Histories : loaderResolves(p, events)
    \/ loaderRejects(p)

NextReplay == RegisterForReplay \/ \E p \in Procs : Replay(p)

SpecReplay == Init /\ [][NextReplay]_vars

----------------------------------------------------------------------------
(* The library example end to end (README.md:131-299). The application has
   registered its inventory domain and its persistence at startup: the command
   handler borrowBook, the rebuilders of Registered and Borrowed, the loader
   stateLoading over the event store, and the event handler that saves Borrowed
   events to the store. The store holds the registration of n copies of /b/1.
   One caller then borrows again and again, each call after the one before has
   ended; further event handlers for Borrowed may be registered meanwhile. *)

LibraryContext == "inventory"
LibraryHandlerFns == {"eThrow", "eStoreAsync", "eReject"}
BorrowCommand == [type |-> "borrow", subjects |-> <<"/b/1">>, data |-> "d"]

Registered(n) ==
    [Event("Registered", "/b/1", AmountData(n)) EXCEPT
       !.source = DefaultSource, !.id = "registered-1", !.time = "earlier",
       !.specversion = "1.0"]

InitLibrary ==
    /\ source = DefaultSource
    /\ commands = MapSet(EmptyMap, "borrow",
                         [type |-> "borrow", context |-> LibraryContext,
                          handle |-> "borrowBook"])
    /\ stateRebuilder =
         MapSet(MapSet(EmptyMap, createKey(LibraryContext, "Registered"),
                       [type |-> "Registered", context |-> LibraryContext,
                        stateRebuilder |-> "onRegistered"]),
                createKey(LibraryContext, "Borrowed"),
                [type |-> "Borrowed", context |-> LibraryContext,
                 stateRebuilder |-> "onBookBorrowed"])
    /\ eventHandler = MapSet(EmptyMap, "Borrowed",
                             <<[type |-> "Borrowed",
                                eventHandler |-> "onBookBorrowedHandler"]>>)
    /\ upcastHandler = EmptyMap
    /\ stateLoader = MapSet(EmptyMap, LibraryContext,
                            [load |-> "stateLoading", context |-> LibraryContext])
    /\ calls = [p \in Procs |-> IdleCall]
    /\ regError = NoError
    /\ firstCommand = commands
    /\ ops = 0                  \* API calls are counted from the end of startup
    /\ uuids = 0
    /\ clock = 0
    /\ issued = {}
    /\ \E n \in Amounts : eventStore = <<Registered(n)>>
    /\ pending = <<>>
    /\ unhandled = {}

(* stateLoading filters the store when it is called and returns
   Promise.resolve(events): it answers with the store as it was at the call. *)
storeAnswers(p) == loaderResolves(p, stateLoading(calls[p].subjects))

(* A pending event handler settles; the loader's answer, already resolved when
   stateLoading returned, is delivered before. *)
settles(i) ==
    /\ \A p \in Procs : calls[p].pc # "awaitLoad"
    /\ eventHandlerSettles(i)

NextLibrary ==
    \/ \E f \in LibraryHandlerFns : registerEventhandler("Borrowed", f)
    \/ handleCommand("p1", BorrowCommand)
    \/ storeAnswers("p1")
    \/ resumeHandleCommand("p1")
    \/ \E i \in 1..Len(pending) : settles(i)

SpecLibrary == InitLibrary /\ [][NextLibrary]_vars

----------------------------------------------------------------------------
(* Two callers dispatching and reconstructing at the same time. Startup is over:
   a command handler of context "A", the loaders of both contexts, rebuilders of
   both contexts and event handlers of both event types are registered, and the
   registries stay as they are. Each of
   the two callers calls handleCommand or createState, for the same subjects as
   the other caller or for different ones, and the calls overlap in every way
   their awaits allow. *)

ConcurrentSubjects == SubjectLists \cup {<<"/b/2">>}

(* What the loaders answer with: histories of events of type "X", which both
   contexts have a rebuilder for. *)
ConcurrentHistories == {h \in Histories : \A i \in 1..Len(h) : h[i].type = "X"}

InitConcurrent ==
    /\ source = DefaultSource
    /\ \E f \in CommandHandlerFns :
          commands = MapSet(EmptyMap, "c1", [type |-> "c1", context |-> "A", handle |-> f])
    /\ stateRebuilder =
         MapSet(MapSet(MapSet(EmptyMap, createKey("A", "X"),
                              [type |-> "X", context |-> "A", stateRebuilder |-> "r1"]),
                       createKey("A", "Y"),
                       [type |-> "Y", context |-> "A", stateRebuilder |-> "r2"]),
                createKey("B", "X"),
                [type |-> "X", context |-> "B", stateRebuilder |-> "r2"])
    /\ eventHandler =
         MapSet(MapSet(EmptyMap, "X", <<[type |-> "X", eventHandler |-> "e1"],
                                        [type |-> "X", eventHandler |-> "e2"]>>),
                "Y", <<[type |-> "Y", eventHandler |-> "e1"]>>)
    /\ upcastHandler = EmptyMap
    /\ stateLoader = MapSet(MapSet(EmptyMap, "A", [load |-> "l1", context |-> "A"]),
                            "B", [load |-> "l2", context |-> "B"])
    /\ calls = [p \in Procs |-> IdleCall]
    /\ regError = NoError
    /\ firstCommand = commands
    /\ ops = 0                  \* API calls are counted from the end of startup
    /\ uuids = 0
    /\ clock = 0
    /\ issued = {}
    /\ eventStore = <<>>
    /\ pending = <<>>
    /\ unhandled = {}

Concurrent(p) ==
    \/ \E command \in Commands : handleCommand(p, command)
    \/ \E c \in Contexts, s \in ConcurrentSubjects : createState(p, c, s)
    \/ \E events \in ConcurrentHistories : loaderResolves(p, events)
    \/ resumeHandleCommand(p)

NextConcurrent == \E p \in Procs : Concurrent(p)

SpecConcurrent == InitConcurrent /\ [][NextConcurrent]_vars

----------------------------------------------------------------------------
(* Contexts and event types that contain the separator of the registration key.
   Context and type are arbitrary strings (part_000:465, 553); here a context
   and a type contain '|'. Rebuilders, upcasters and loaders are registered for
   them, and one caller reconstructs state from histories of these types. *)

KeyContexts == {"a", "a|b"}
KeyTypes == {"c", "b|c"}
KeyHistories == SeqsUpTo({Event(t, "/b/1", "d1") : t \in KeyTypes}, MaxHistory)

RegisterKeys ==
    \/ \E t \in KeyTypes, c \in KeyContexts, f \in RebuilderFns :
           registerStateRebuilder(t, c, f)
    \/ \E t \in KeyTypes, c \in KeyContexts : registerUpcaster(t, c, "u1")
    \/ \E c \in KeyContexts : registerStateLoadingFunction(c, "l1")

ReplayKeys(p) ==
    \/ \E c \in KeyContexts, s \in SubjectLists : createState(p, c, s)
    \/ \E events \in KeyHistories : loaderResolves(p, events)

NextKeys == RegisterKeys \/ ReplayKeys("p1")

SpecKeys == Init /\ [][NextKeys]_vars

----------------------------------------------------------------------------
(* An application whose stored events are upcast. maybeUpcast finds an upcaster
   for an event whose type string is the key the upcaster is stored under; this
   application names its event types that way. Startup is over: the upcaster of
   (A, X), stored under "[A|X]", turns an event of type "[A|X]" into one of type
   "[B|X]", and the upcaster of (B, X) is stored under "[B|X]"; context A has a
   loader, rebuilders for the types "[A|X]", "[B|X]" and "Y", and the command
   handler, which returns an event of type "[A|X]"; event handlers are
   registered for "[A|X]" and "[B|X]". One caller dispatches and reconstructs. *)

UpcastHistories ==
    SeqsUpTo({Event(t, "/b/1", "d1") : t \in {"[A|X]", "[B|X]", "X"}}, MaxHistory)

InitUpcast ==
    /\ source = DefaultSource
    /\ commands = MapSet(EmptyMap, "c1",
                         [type |-> "c1", context |-> "A", handle |-> "emitKeyed"])
    /\ stateRebuilder =
         MapSet(MapSet(MapSet(EmptyMap, createKey("A", "[A|X]"),
                              [type |-> "[A|X]", context |-> "A", stateRebuilder |-> "r2"]),
                       createKey("A", "[B|X]"),
                       [type |-> "[B|X]", context |-> "A", stateRebuilder |-> "r1"]),
                createKey("A", "Y"),
                [type |-> "Y", context |-> "A", stateRebuilder |-> "r1"])
    /\ eventHandler =
         MapSet(MapSet(EmptyMap, "[A|X]", <<[type |-> "[A|X]", eventHandler |-> "e1"]>>),
                "[B|X]", <<[type |-> "[B|X]", eventHandler |-> "e2"]>>)
    /\ upcastHandler =
         MapSet(MapSet(EmptyMap, createKey("A", "X"),
                       [type |-> "X", context |-> "A", upcast |-> "uNext"]),
                createKey("B", "X"),
                [type |-> "X", context |-> "B", upcast |-> "u1"])
    /\ stateLoader = MapSet(EmptyMap, "A", [load |-> "l1", context |-> "A"])
    /\ calls = [p \in Procs |-> IdleCall]
    /\ regError = NoError
    /\ firstCommand = commands
    /\ ops = 0                  \* API calls are counted from the end of startup
    /\ uuids = 0
    /\ clock = 0
    /\ issued = {}
    /\ eventStore = <<>>
    /\ pending = <<>>
    /\ unhandled = {}

NextUpcast ==
    \/ \E command \in Commands : handleCommand("p1", command)
    \/ \E s \in SubjectLists : createState("p1", "A", s)
    \/ \E events \in UpcastHistories : loaderResolves("p1", events)
    \/ resumeHandleCommand("p1")

SpecUpcast == InitUpcast /\ [][NextUpcast]_vars

----------------------------------------------------------------------------
(* Write side and read side of the library example (README.md:86-93, 241-258).
   Startup is that of the library: the event handler of Borrowed saves each
   materialized event to the store as it is invoked, and the loader returns the
   stored events of the requested subjects in the order they were saved. One
   caller borrows, another queries the state of the book with createState; the
   calls are made one after the other, each when the call before has ended.
   Further event handlers may be registered for Borrowed meanwhile: one that
   saves nothing, and an async function that saves the event as well. *)

RoundTripHandlerFns == {"e1", "eStoreAsync"}

InFlightCall(p) == calls[p].pc \in {"awaitLoad", "awaitState"}

dispatches(p, q) == ~InFlightCall(q) /\ handleCommand(p, BorrowCommand)

queries(p, q) == ~InFlightCall(q) /\ createState(p, LibraryContext, BorrowCommand.subjects)

NextRoundTrip ==
    \/ \E f \in RoundTripHandlerFns : registerEventhandler("Borrowed", f)
    \/ dispatches("p1", "p2")
    \/ storeAnswers("p1")
    \/ resumeHandleCommand("p1")
    \/ queries("p2", "p1")
    \/ storeAnswers("p2")
    \/ \E i \in 1..Len(pending) : settles(i)

SpecRoundTrip == InitLibrary /\ [][NextRoundTrip]_vars

----------------------------------------------------------------------------
(* Vocabulary of the properties. *)

(* The steps of a call, as seen on a transition. *)
Loaded(p) == calls[p].pc = "awaitLoad" /\ calls'[p].pc \in {"awaitState", "done"}
Resumes(p) == /\ calls[p].pc = "awaitState"
              /\ calls[p].op = "handleCommand"
              /\ calls'[p].pc \in {"done", "failed"}

(* The context a call folds events under. *)
FoldContext(p) ==
    IF calls[p].op = "handleCommand" THEN calls[p].handler.context ELSE calls[p].context

IsPrefix(s, t) == Len(s) <= Len(t) /\ SubSeq(t, 1, Len(s)) = s
Front(s) == SubSeq(s, 1, Len(s) - 1)
Last(s) == s[Len(s)]
Positions(trace, op) == {i \in 1..Len(trace) : trace[i].op = op}

(* The rebuilders registered for a (context, type) pair, read off the registered
   entries themselves. *)
RebuildersFor(context, type) ==
    {stateRebuilder[k] : k \in {x \in DOMAIN stateRebuilder :
                                  /\ stateRebuilder[x].context = context
                                  /\ stateRebuilder[x].type = type}}

(* The left fold of `events` from `state` through the rebuilders of `context`:
   an event with a rebuilder replaces the state by rebuilder(event.data, state),
   any other event leaves it as it is. *)
RECURSIVE RefFold(_, _, _)
RefFold(context, events, state) ==
    IF events = <<>> THEN state
    ELSE LET before == RefFold(context, Front(events), state)
             event == Last(events)
             found == RebuildersFor(context, event.type)
         IN IF found = {} THEN before
            ELSE ApplyRebuilder((CHOOSE r \in found : TRUE).stateRebuilder, event.data,
                                before)

----------------------------------------------------------------------------
(* C1: registerCommandHandler for a type that already has a handler throws and
   leaves the command registry as it was; the registry always holds, for each
   command type, exactly the handler and context of the first registration call
   for that type, and every handleCommand dispatches to that handler under that
   context. *)
C1_FirstCommandHandlerWins ==
    /\ [](commands = firstCommand)
    /\ [](\A p \in Procs :
            calls[p].op = "handleCommand" /\ calls[p].handler # NoHandler =>
              LET type == calls[p].command.type IN
              /\ Has(firstCommand, type)
              /\ calls[p].handler = firstCommand[type]
              /\ calls[p].context = firstCommand[type].context
              /\ \A i \in Positions(calls[p].trace, "handle") :
                   /\ calls[p].trace[i].fn = firstCommand[type].handle
                   /\ calls[p].trace[i].context = firstCommand[type].context)
    /\ [][\A t \in CommandTypes, c \in Contexts, f \in CommandHandlerFns :
            registerCommandHandler(t, c, f) /\ Has(commands, t) =>
              /\ regError' = "Command handler for " \o t \o " already exists"
              /\ commands' = commands]_vars

(* C1 witness: a second registration for c1 has thrown and a handleCommand of
   c1 has run its command handler to completion. *)
C1_Witness ==
    /\ regError = "Command handler for c1 already exists"
    /\ \E p \in Procs :
         /\ calls[p].op = "handleCommand"
         /\ calls[p].pc = "done"
         /\ Positions(calls[p].trace, "handle") # {}

(* The upcasters registered for a (context, type) pair. *)
UpcastersFor(context, type) ==
    {upcastHandler[k] : k \in {x \in DOMAIN upcastHandler :
                                 /\ upcastHandler[x].context = context
                                 /\ upcastHandler[x].type = type}}

(* The event a reconstruction under `context` is to fold for a loaded event: the
   output of the upcaster registered for (context, event.type), or the event. *)
Upcasted(context, event) ==
    LET found == UpcastersFor(context, event.type) IN
    IF found = {} THEN event
    ELSE ApplyUpcaster((CHOOSE u \in found : TRUE).upcast, event)

(* C2: upcast transparency. When the loader of a reconstruction under context c
   answers, every loaded event whose type has an upcaster registered for c is
   folded as the upcaster's output, and every other loaded event is folded
   unchanged. *)
C2_UpcastTransparency ==
    [][\A p \in Procs :
         Loaded(p) =>
           /\ Len(calls'[p].folded) = Len(calls'[p].loaded)
           /\ \A i \in 1..Len(calls'[p].loaded) :
                calls'[p].folded[i] = Upcasted(calls[p].context, calls'[p].loaded[i])]_vars

(* C3: context isolation. Every rebuilder a call invokes, while replaying the
   history or while folding new events, was registered for the context the call
   folds under. *)
C3_ContextIsolation ==
    \A p \in Procs :
      /\ calls[p].op = "handleCommand" /\ calls[p].handler # NoHandler =>
           calls[p].context = calls[p].handler.context
      /\ \A i \in Positions(calls[p].trace, "rebuild") :
           calls[p].trace[i].context = FoldContext(p)

(* C3 witness: rebuilders for type X are registered under both contexts, and a
   call that folds under B has folded an event of type X through B's own. *)
C3_Witness ==
    /\ Has(stateRebuilder, createKey("A", "X"))
    /\ Has(stateRebuilder, createKey("B", "X"))
    /\ \E p \in Procs :
         /\ calls[p].pc = "done"
         /\ FoldContext(p) = "B"
         /\ \E i \in Positions(calls[p].trace, "rebuild") :
              calls[p].trace[i].event.type = "X"

(* C4: handleCommand with a registered handler calls createState with the
   handler's context and the command's subjects, invokes the handler exactly once
   with (command.data, s0), s0 being the state createState returned, and a
   dispatch that completes returns s0 folded, through the rebuilders of the
   handler's context, with the events the handler returned, in that order. *)
C4_HandleCommandResult ==
    [][\A p \in Procs :
         Resumes(p) =>
           LET before == calls[p]
               after == calls'[p]
               commandHandler == before.handler
               handled == ApplyCommandHandler(commandHandler.handle, before.command.data,
                                              before.state)
               handles == Positions(after.trace, "handle")
           IN /\ Has(commands, before.command.type)
              /\ commandHandler = commands[before.command.type]
              /\ before.context = commandHandler.context
              /\ before.subjects = before.command.subjects
              /\ Cardinality(handles) = 1
              /\ \A i \in handles :
                   /\ after.trace[i].fn = commandHandler.handle
                   /\ after.trace[i].data = before.command.data
                   /\ after.trace[i].state = before.state
              /\ after.pc = "done" =>
                   after.result = RefFold(commandHandler.context, handled.events,
                                          before.state)]_vars

(* C4 witness: a completed dispatch whose handler received a state rebuilt from
   a loaded history and whose returned state has a new event folded on top. *)
C4_Witness ==
    \E p \in Procs :
      /\ calls[p].op = "handleCommand"
      /\ calls[p].pc = "done"
      /\ calls[p].loaded # <<>>
      /\ calls[p].state0 # NullState
      /\ Len(calls[p].result) > Len(calls[p].state0)

(* C5: when the command handler throws, handleCommand fails with the handler's
   error and nothing follows the handler invocation: no rebuilder is applied to
   a new event, no event is materialized, no event handler is invoked. *)
C5_HandlerThrowAborts ==
    \A p \in Procs :
      \A i \in Positions(calls[p].trace, "handle") :
        LET entry == calls[p].trace[i]
            handled == ApplyCommandHandler(entry.fn, entry.data, entry.state)
        IN handled.threw =>
             /\ i = Len(calls[p].trace)
             /\ calls[p].pc = "failed"
             /\ calls[p].error = handled.error
             /\ calls[p].newEvents = <<>>
             /\ calls[p].cloudEvents = <<>>
             /\ calls[p].state = entry.state

(* C5 witness: a dispatch has failed with the handler's error while an event
   handler is registered for the event type the handler emits otherwise. *)
C5_Witness ==
    /\ Has(eventHandler, "X")
    /\ \E p \in Procs :
         /\ calls[p].pc = "failed"
         /\ calls[p].error = "No copy available anymore"
         /\ Positions(calls[p].trace, "handle") # {}

(* The event handler invocations of a trace, in order. *)
HandlerCalls(trace) ==
    LET entries == SelectSeq(trace, LAMBDA e : e.op = "eventHandler") IN
    [i \in 1..Len(entries) |->
       [fn |-> entries[i].fn, type |-> entries[i].type, event |-> entries[i].event]]

(* The invocations the fan-out of `cloudEvents` is to make: event by event, the
   handlers registered for the event's type, in the order of the registry list. *)
RECURSIVE RefFanOut(_)
RefFanOut(cloudEvents) ==
    IF cloudEvents = <<>> THEN <<>>
    ELSE LET event == Last(cloudEvents)
             list == IF Has(eventHandler, event.type) THEN eventHandler[event.type]
                     ELSE <<>>
         IN RefFanOut(Front(cloudEvents)) \o
            [j \in 1..Len(list) |->
               [fn |-> list[j].eventHandler, type |-> event.type, event |-> event]]

(* C6: fan-out ordering. In a dispatch that completes, the materialized events
   correspond to the events the handler returned, and the event handler
   invocations are exactly, for each event in turn, the handlers registered for
   its type, once per registration and in registration order.
   registerEventhandler never fails and appends to the list of its type; no step
   changes a list otherwise. *)
C6_FanOutOrdering ==
    /\ [][\A p \in Procs :
            Resumes(p) /\ calls'[p].pc = "done" =>
              /\ Len(calls'[p].cloudEvents) = Len(calls'[p].newEvents)
              /\ \A i \in 1..Len(calls'[p].newEvents) :
                   calls'[p].cloudEvents[i].type = calls'[p].newEvents[i].type
              /\ HandlerCalls(calls'[p].trace) = RefFanOut(calls'[p].cloudEvents)]_vars
    /\ [][\A t \in EventTypes, f \in EventHandlerFns :
            registerEventhandler(t, f) =>
              /\ regError' = NoError
              /\ Has(eventHandler', t)
              /\ eventHandler'[t] =
                   Append(IF Has(eventHandler, t) THEN eventHandler[t] ELSE <<>>,
                          [type |-> t, eventHandler |-> f])]_vars
    /\ [][\A t \in DOMAIN eventHandler :
            /\ Has(eventHandler', t)
            /\ IsPrefix(eventHandler[t], eventHandler'[t])
            /\ Len(eventHandler'[t]) <= Len(eventHandler[t]) + 1]_vars

(* C6 witness: a completed dispatch has invoked two different handlers
   registered for the same type, for the same event. *)
C6_Witness ==
    \E p \in Procs :
      /\ calls[p].pc = "done"
      /\ LET invoked == HandlerCalls(calls[p].trace) IN
         \E i \in 1..Len(invoked) :
           /\ i < Len(invoked)
           /\ invoked[i].event = invoked[i + 1].event
           /\ invoked[i].fn # invoked[i + 1].fn

(* C7: in a dispatch whose handler returned events, every event handler
   invocation comes after the last rebuilder invocation, and each receives the
   state with all the new events folded in, which is the value a completed
   dispatch returns. *)
C7_HandlersSeeFinalState ==
    [][\A p \in Procs :
         Resumes(p) =>
           LET before == calls[p]
               after == calls'[p]
               final == RefFold(before.handler.context, after.newEvents, before.state)
               invoked == Positions(after.trace, "eventHandler")
           IN /\ \A i \in invoked :
                   /\ after.trace[i].state = final
                   /\ \A j \in (i + 1)..Len(after.trace) :
                        after.trace[j].op = "eventHandler"
              /\ invoked # {} => after.state = final
              /\ invoked # {} /\ after.pc = "done" => after.result = final]_vars

(* C7 witness: a completed dispatch of two events in which a handler of the
   first event received the returned state, and that state has the second event
   folded in. *)
C7_Witness ==
    \E p \in Procs :
      /\ calls[p].pc = "done"
      /\ Len(calls[p].newEvents) = 2
      /\ \E i \in Positions(calls[p].trace, "eventHandler") :
           /\ calls[p].trace[i].event = calls[p].cloudEvents[1]
           /\ calls[p].trace[i].state = calls[p].result
      /\ \E j \in Positions(calls[p].trace, "rebuild") :
           calls[p].trace[j].event = calls[p].newEvents[2]

(* C8: handleCommand for a command type without a handler returns at once with
   an absent result and no error, and has invoked no loader, upcaster, rebuilder,
   command handler or event handler. *)
C8_UnknownCommandNoOp ==
    /\ [][\A p \in Procs, command \in Commands :
            handleCommand(p, command) /\ ~Has(commands, command.type) =>
              /\ calls'[p].op = "handleCommand"
              /\ calls'[p].command = command
              /\ calls'[p].pc = "done"
              /\ calls'[p].error = NoError
              /\ calls'[p].result = NullState
              /\ calls'[p].trace = <<>>
              /\ calls'[p].handler = NoHandler]_vars
    /\ [](\A p \in Procs :
            calls[p].op = "handleCommand" /\ calls[p].handler = NoHandler =>
              /\ calls[p].pc = "done"
              /\ calls[p].error = NoError
              /\ calls[p].result = NullState
              /\ calls[p].trace = <<>>
              /\ calls[p].cloudEvents = <<>>)

(* C8 witness: a handleCommand found no handler and returned, while a state
   loader and an event handler were registered. *)
C8_Witness ==
    /\ commands = EmptyMap
    /\ stateLoader # EmptyMap
    /\ eventHandler # EmptyMap
    /\ \E p \in Procs :
         /\ calls[p].op = "handleCommand"
         /\ calls[p].pc = "done"
         /\ calls[p].handler = NoHandler

(* The events of a sequence whose type has a rebuilder under `context`. *)
KnownEvents(context, events) ==
    SelectSeq(events, LAMBDA e : RebuildersFor(context, e.type) # {})

(* The fold of events that all have a rebuilder under `context`. *)
RECURSIVE FoldKnown(_, _, _)
FoldKnown(context, events, state) ==
    IF events = <<>> THEN state
    ELSE LET rebuilder == CHOOSE r \in RebuildersFor(context, Head(events).type) : TRUE
         IN FoldKnown(context, Tail(events),
                      ApplyRebuilder(rebuilder.stateRebuilder, Head(events).data, state))

(* No handler registered for the type of one of `events` throws. *)
HandlersReturn(events) ==
    \A i \in 1..Len(events) :
      Has(eventHandler, events[i].type) =>
        \A j \in 1..Len(eventHandler[events[i].type]) :
          ~EventHandlerThrows(eventHandler[events[i].type][j].eventHandler)

(* C9: unknown event types are skipped. A fold (of the loaded history, or of the
   new events) yields what folding only the events with a rebuilder under the
   folding context yields, one rebuilder invocation per such event; event
   handlers are invoked only for events whose type has handlers, and a dispatch
   in which no invoked handler throws completes and returns the state. *)
C9_UnknownTypesSkipped ==
    [][\A p \in Procs :
         /\ Loaded(p) =>
              LET known == KnownEvents(calls[p].context, calls'[p].folded) IN
              /\ calls'[p].state = FoldKnown(calls[p].context, known, NullState)
              /\ Cardinality(Positions(calls'[p].trace, "rebuild")) = Len(known)
         /\ Resumes(p) /\ calls'[p].error # "No copy available anymore" =>
              LET context == calls[p].handler.context
                  known == KnownEvents(context, calls'[p].newEvents)
              IN /\ calls'[p].state = FoldKnown(context, known, calls[p].state)
                 /\ Cardinality(Positions(calls'[p].trace, "rebuild"))
                      = Cardinality(Positions(calls[p].trace, "rebuild")) + Len(known)
                 /\ \A i \in Positions(calls'[p].trace, "eventHandler") :
                      Has(eventHandler, calls'[p].trace[i].event.type)
                 /\ HandlersReturn(calls'[p].newEvents) =>
                      /\ calls'[p].pc = "done"
                      /\ calls'[p].result = calls'[p].state]_vars

(* C9 witness: a completed dispatch of two events whose first event has neither
   a rebuilder under the folding context nor an event handler, and whose second
   event was folded. *)
C9_Witness ==
    \E p \in Procs :
      /\ calls[p].op = "handleCommand"
      /\ calls[p].pc = "done"
      /\ Len(calls[p].newEvents) = 2
      /\ RebuildersFor(FoldContext(p), calls[p].newEvents[1].type) = {}
      /\ ~Has(eventHandler, calls[p].newEvents[1].type)
      /\ \E j \in Positions(calls[p].trace, "rebuild") :
           calls[p].trace[j].event = calls[p].newEvents[2]
      /\ calls[p].result # NullState

(* C10: createState returns the left fold, from the absent state, of the events
   the loader returned, in the returned order, each upcast by the upcaster
   registered for (context, type) if there is one, through the rebuilders of the
   context. *)
C10_CreateStateIsLeftFold ==
    [][\A p \in Procs :
         Loaded(p) /\ calls[p].op = "createState" =>
           LET context == calls[p].context
               loaded == calls'[p].loaded
               upcasted == [i \in 1..Len(loaded) |-> Upcasted(context, loaded[i])]
           IN /\ calls'[p].pc = "done"
              /\ calls'[p].result = RefFold(context, upcasted, NullState)]_vars

(* C11: registerStateRebuilder for a (context, type) pair that already has a
   rebuilder throws and leaves the registry as it was; for a pair without one it
   succeeds, whatever is registered for the same type under other contexts, and
   adds exactly the rebuilder given. No step changes or removes an entry of the
   registry, so each pair has at most one rebuilder, the first registered, and
   every fold applies, to an event, the rebuilder registered for the folding
   context and the event's type. (A registration is an API call that changes
   no call and no other registry; only such steps are compared with the
   registration calls.) *)
C11_FirstStateRebuilderWins ==
    /\ [][ops' # ops /\ UNCHANGED <<source, commands, eventHandler, upcastHandler,
                                     stateLoader, calls>> =>
          \A t \in EventTypes, c \in Contexts, f \in RebuilderFns :
            registerStateRebuilder(t, c, f) =>
              IF RebuildersFor(c, t) # {}
              THEN /\ regError' = "State rebuilder for " \o createKey(c, t)
                                    \o " already exists"
                   /\ stateRebuilder' = stateRebuilder
              ELSE /\ regError' = NoError
                   /\ RebuildersFor(c, t)' =
                        {[type |-> t, context |-> c, stateRebuilder |-> f]}
                   /\ \A t2 \in EventTypes, c2 \in Contexts :
                        <<c2, t2>> # <<c, t>> =>
                          RebuildersFor(c2, t2)' = RebuildersFor(c2, t2)]_vars
    /\ [][\A k \in DOMAIN stateRebuilder :
            Has(stateRebuilder', k) /\ stateRebuilder'[k] = stateRebuilder[k]]_vars
    /\ [](\A t \in EventTypes, c \in Contexts : Cardinality(RebuildersFor(c, t)) <= 1)
    /\ [](\A p \in Procs :
            \A i \in Positions(calls[p].trace, "rebuild") :
              LET entry == calls[p].trace[i] IN
              RebuildersFor(FoldContext(p), entry.event.type) =
                {[type |-> entry.event.type, context |-> FoldContext(p),
                  stateRebuilder |-> entry.fn]})

(* C11 witness: a registration for (A, X) has thrown after a dispatch under A was
   started, and the dispatch has folded its event of type X through the
   rebuilder that was registered first. *)
C11_Witness ==
    /\ regError = "State rebuilder for [A|X] already exists"
    /\ \E p \in Procs :
         /\ calls[p].pc = "done"
         /\ FoldContext(p) = "A"
         /\ \E i \in Positions(calls[p].trace, "rebuild") :
              /\ calls[p].trace[i].event.type = "X"
              /\ RebuildersFor("A", "X") =
                   {[type |-> "X", context |-> "A",
                     stateRebuilder |-> calls[p].trace[i].fn]}

(* C12: registerUpcaster for a (context, type) pair that already has an upcaster
   throws and leaves the registry as it was; for a pair without one it succeeds
   and adds exactly the upcaster given. No step changes the upcaster of a pair
   that has one, so the registry holds at most one upcaster per pair, the first
   registered. *)
C12_FirstUpcasterWins ==
    /\ [][\A t \in UpcastTypes, c \in Contexts, f \in UpcasterFns :
            registerUpcaster(t, c, f) =>
              IF UpcastersFor(c, t) # {}
              THEN /\ regError' = "upcaster for " \o createKey(c, t) \o " already exists"
                   /\ upcastHandler' = upcastHandler
              ELSE /\ regError' = NoError
                   /\ UpcastersFor(c, t)' = {[type |-> t, context |-> c, upcast |-> f]}
                   /\ \A t2 \in UpcastTypes, c2 \in Contexts :
                        <<c2, t2>> # <<c, t>> =>
                          UpcastersFor(c2, t2)' = UpcastersFor(c2, t2)]_vars
    /\ [][\A t \in UpcastTypes, c \in Contexts :
            UpcastersFor(c, t) # {} => UpcastersFor(c, t)' = UpcastersFor(c, t)]_vars
    /\ [](\A t \in UpcastTypes, c \in Contexts : Cardinality(UpcastersFor(c, t)) <= 1)
    /\ [](\A k \in DOMAIN upcastHandler :
            k = createKey(upcastHandler[k].context, upcastHandler[k].type))

(* C12 witness: different upcasters for X are registered under the two contexts,
   and the last registration call, for (A, X) again, has thrown. *)
C12_Witness ==
    /\ regError = "upcaster for [A|X] already exists"
    /\ \E a \in UpcastersFor("A", "X"), b \in UpcastersFor("B", "X") : a.upcast # b.upcast

(* The upcaster invocations of a trace, in order. *)
UpcastCalls(trace) ==
    LET entries == SelectSeq(trace, LAMBDA e : e.op = "upcast") IN
    [i \in 1..Len(entries) |-> [fn |-> entries[i].fn, event |-> entries[i].event]]

(* The upcaster invocations a replay of `events` under `context` is to make: for
   each event in turn, the upcaster registered for (context, event.type). *)
RECURSIVE RefUpcastCalls(_, _)
RefUpcastCalls(context, events) ==
    IF events = <<>> THEN <<>>
    ELSE LET event == Last(events)
             found == UpcastersFor(context, event.type)
         IN RefUpcastCalls(context, Front(events)) \o
            (IF found = {} THEN <<>>
             ELSE <<[fn |-> (CHOOSE u \in found : TRUE).upcast, event |-> event]>>)

(* C13: upcasters are scoped by context. When the loader of a replay under
   context c answers, the upcasters invoked are, for each loaded event in turn,
   the upcaster registered for (c, event.type) where there is one, and no other:
   every upcaster invoked was registered for the context of the replay and for
   the type of the event it is given. *)
C13_UpcasterScopedByContext ==
    [][\A p \in Procs :
         Loaded(p) =>
           /\ UpcastCalls(calls'[p].trace) = RefUpcastCalls(calls[p].context, calls'[p].loaded)
           /\ \A i \in Positions(calls'[p].trace, "upcast") :
                /\ calls'[p].trace[i].context = calls[p].context
                /\ calls'[p].trace[i].type = calls'[p].trace[i].event.type]_vars

(* The events the command handler of the resuming dispatch `p` returns. *)
Produced(p) ==
    ApplyCommandHandler(calls[p].handler.handle, calls[p].command.data, calls[p].state)

(* C14: default field fill-in. For every event the command handler returned, the
   materialized event has the event's own source, id and time where the event
   has them; otherwise the source is the process-wide default (the value of the
   last setSource call, initially "CQRS_DEFAULTSOURCE"), the id is a fresh,
   non-empty identifier that was not handed out before and differs from the
   other identifiers handed out in the dispatch, and the time is the current
   instant. The event handlers are handed these materialized events. *)
C14_DefaultFieldFillIn ==
    /\ [][\A p \in Procs :
            Resumes(p) /\ ~Produced(p).threw =>
              LET produced == Produced(p).events
                  cloudEvents == calls'[p].cloudEvents
                  auto == {i \in 1..Len(produced) : produced[i].id = Absent}
              IN /\ Len(cloudEvents) = Len(produced)
                 /\ \A i \in 1..Len(produced) :
                      /\ cloudEvents[i].source =
                           IF produced[i].source # Absent THEN produced[i].source ELSE source
                      /\ cloudEvents[i].time =
                           IF produced[i].time # Absent THEN produced[i].time
                           ELSE "now-" \o ToString(clock)
                      /\ i \notin auto => cloudEvents[i].id = produced[i].id
                      /\ i \in auto =>
                           /\ cloudEvents[i].id \notin {Absent, ""}
                           /\ cloudEvents[i].id \notin issued
                           /\ cloudEvents[i].id \in issued'
                           /\ \A j \in auto \ {i} : cloudEvents[j].id # cloudEvents[i].id
                 /\ \A k \in Positions(calls'[p].trace, "eventHandler") :
                      \E i \in 1..Len(cloudEvents) :
                        calls'[p].trace[k].event = cloudEvents[i]]_vars
    /\ [][\A src \in Sources : setSource(src) => source' = src]_vars
    /\ [][source' # source => \E src \in Sources : setSource(src)]_vars
    /\ [](ops = 0 => source = DefaultSource)

(* C14 witness: after setSource("S1"), a completed dispatch has handed an event
   handler an event whose source is S1 and whose id and time were filled in,
   and has materialized a second event that keeps the source, id and time its
   command handler gave it. *)
C14_Witness ==
    \E p \in Procs :
      /\ calls[p].pc = "done"
      /\ Len(calls[p].cloudEvents) = 2
      /\ calls[p].newEvents[1].source = Absent
      /\ calls[p].newEvents[1].id = Absent
      /\ calls[p].newEvents[1].time = Absent
      /\ calls[p].cloudEvents[1].source = "S1"
      /\ calls[p].cloudEvents[1].id \in issued
      /\ calls[p].cloudEvents[1].time \notin {Absent, ""}
      /\ \E k \in Positions(calls[p].trace, "eventHandler") :
           calls[p].trace[k].event = calls[p].cloudEvents[1]
      /\ calls[p].cloudEvents[2].source = "own-source"
      /\ calls[p].cloudEvents[2].id = "own-id"
      /\ calls[p].cloudEvents[2].time = "own-time"

(* C15: materialization makes one event of each event the command handler
   returned, in the same order, with the type, subject, data and extension
   attribute of that event, and with specversion "1.0" whatever specversion the
   handler supplied. *)
C15_MaterializationCarriesThrough ==
    [][\A p \in Procs :
         Resumes(p) /\ ~Produced(p).threw =>
           LET produced == Produced(p).events
               cloudEvents == calls'[p].cloudEvents
           IN /\ DOMAIN cloudEvents = DOMAIN produced
              /\ \A i \in DOMAIN produced :
                   /\ cloudEvents[i].type = produced[i].type
                   /\ cloudEvents[i].subject = produced[i].subject
                   /\ cloudEvents[i].data = produced[i].data
                   /\ cloudEvents[i].ext = produced[i].ext
                   /\ cloudEvents[i].specversion = "1.0"]_vars

(* C15 witness: a completed dispatch of two events whose second event came from
   the handler with an extension attribute and specversion "0.3", and was
   materialized with the attribute and specversion "1.0". *)
C15_Witness ==
    \E p \in Procs :
      /\ calls[p].pc = "done"
      /\ Len(calls[p].cloudEvents) = 2
      /\ calls[p].newEvents[2].specversion = "0.3"
      /\ calls[p].newEvents[2].ext = "own-ext"
      /\ calls[p].cloudEvents[2].specversion = "1.0"
      /\ calls[p].cloudEvents[2].ext = "own-ext"
      /\ calls[p].cloudEvents[1].specversion = "1.0"
      /\ calls[p].cloudEvents[1].type # calls[p].cloudEvents[2].type

(* C19: a state loader failure propagates. When the loader rejects, the
   createState call, and the handleCommand call awaiting it, fail with the
   loader's failure at that step; the failed call has invoked the loader once
   and nothing else (no upcaster, rebuilder, command handler or event handler),
   has produced no event and no side effect, and takes no further step: the
   next change of the caller's call is a new call. *)
C19_LoaderFailurePropagates ==
    /\ [][\A p \in Procs :
            loaderRejects(p) =>
              /\ calls'[p].pc = "failed"
              /\ calls'[p].error = "loader failed"
              /\ calls'[p].trace = calls[p].trace
              /\ UNCHANGED <<uuids, world>>]_vars
    /\ [](\A p \in Procs :
            calls[p].error = "loader failed" =>
              /\ calls[p].pc = "failed"
              /\ Len(calls[p].trace) = 1
              /\ calls[p].trace[1].op = "load"
              /\ calls[p].newEvents = <<>>
              /\ calls[p].cloudEvents = <<>>
              /\ calls[p].result = NullState)
    /\ [][\A p \in Procs :
            calls[p].pc = "failed" /\ calls'[p] # calls[p] =>
              /\ ops' = ops + 1
              /\ calls'[p].error = NoError]_vars

(* C19 witness: a handleCommand has failed with the loader's failure while a
   command handler and an event handler for the event it emits were registered. *)
C19_Witness ==
    /\ Has(eventHandler, "X")
    /\ \E p \in Procs :
         /\ calls[p].op = "handleCommand"
         /\ calls[p].handler # NoHandler
         /\ calls[p].pc = "failed"
         /\ calls[p].error = "loader failed"

(* C16: determinism of createState. With the registries fixed, two createState
   calls for the same context and subjects whose loader returned the same event
   sequence return the same state, after the same collaborator invocations,
   whether the calls overlap or follow one another; and a createState call
   changes nothing but its own call: no registry, no counter, no store. *)
C16_CreateStateDeterministic ==
    /\ [](\A p \in Procs, q \in Procs :
            /\ calls[p].op = "createState" /\ calls[p].pc = "done"
            /\ calls[q].op = "createState" /\ calls[q].pc = "done"
            /\ calls[p].context = calls[q].context
            /\ calls[p].subjects = calls[q].subjects
            /\ calls[p].loaded = calls[q].loaded
            => /\ calls[p].result = calls[q].result
               /\ calls[p].trace = calls[q].trace)
    /\ [][\A p \in Procs :
            calls'[p] # calls[p] =>
              /\ UNCHANGED <<registries, uuids, clock, issued, world>>
              /\ \A q \in Procs \ {p} : calls'[q] = calls[q]]_vars

(* C16 witness: both callers have completed a createState for the same context
   with the same non-empty loaded history, and the state returned is not the
   absent state. *)
C16_Witness ==
    /\ calls["p1"].op = "createState" /\ calls["p1"].pc = "done"
    /\ calls["p2"].op = "createState" /\ calls["p2"].pc = "done"
    /\ calls["p1"].context = calls["p2"].context
    /\ calls["p1"].loaded = calls["p2"].loaded
    /\ calls["p1"].loaded # <<>>
    /\ calls["p1"].result # NullState
    /\ calls["p2"].result # NullState

(* The library as the scenario has it: the only event handler is the one that
   saves Borrowed events, and the history began with Registered{amount: n}. *)
OnlyStoreHandler ==
    /\ Has(eventHandler, "Borrowed")
    /\ eventHandler["Borrowed"] =
         <<[type |-> "Borrowed", eventHandler |-> "onBookBorrowedHandler"]>>
Copies == ParseAmount(eventStore[1].data)

(* A call of caller p has ended; with no registration made since startup it is
   call number `ops`. *)
Ended(p) == calls[p].op = "handleCommand" /\ calls[p].pc \in {"done", "failed"}

(* C17 as stated: from amount 3 the first two borrow calls succeed, decrementing
   to amount 1, and the third call fails without emitting an event or invoking
   an event handler. *)
C17_ThirdBorrowFails ==
    \A p \in Procs :
      OnlyStoreHandler /\ Copies = 3 /\ Ended(p) =>
        /\ ops \in {1, 2} => calls[p].pc = "done" /\ Amount(calls[p].result) = 3 - ops
        /\ ops = 3 => /\ calls[p].pc = "failed"
                      /\ calls[p].cloudEvents = <<>>
                      /\ Positions(calls[p].trace, "eventHandler") = {}

(* C17 amended: from amount n, borrow call number k succeeds while k <= n: it
   returns amount n - k and emits one Borrowed event, which the event handler
   saves to the history; so from amount 3 three calls succeed, decrementing to
   2, 1 and 0. Every later call (amount 0) fails with the handler's error, emits
   no event and invokes no event handler. *)
C17_BorrowUntilNoCopyIsLeft ==
    \A p \in Procs :
      OnlyStoreHandler /\ Ended(p) =>
        IF ops <= Copies
        THEN /\ calls[p].pc = "done"
             /\ Amount(calls[p].result) = Copies - ops
             /\ Len(calls[p].cloudEvents) = 1
             /\ calls[p].cloudEvents[1].type = "Borrowed"
             /\ Cardinality(Positions(calls[p].trace, "eventHandler")) = 1
             /\ Len(eventStore) = 1 + ops
             /\ eventStore[1 + ops] = calls[p].cloudEvents[1]
        ELSE /\ calls[p].pc = "failed"
             /\ calls[p].error = "No copy available anymore"
             /\ calls[p].newEvents = <<>>
             /\ calls[p].cloudEvents = <<>>
             /\ Positions(calls[p].trace, "eventHandler") = {}
             /\ Len(eventStore) = 1 + Copies

(* C17 witness: from amount 3, three calls have saved their Borrowed events and
   the fourth call has failed. *)
C17_Witness ==
    /\ OnlyStoreHandler
    /\ Copies = 3
    /\ ops = 4
    /\ Len(eventStore) = 4
    /\ \E p \in Procs : Ended(p) /\ calls[p].pc = "failed" /\ Amount(calls[p].state0) = 0

Range(s) == {s[i] : i \in DOMAIN s}

(* The promise the event handler invocation `entry` returned, if the handler is
   asynchronous. *)
PromiseOf(entry) == [fn |-> entry.fn, event |-> entry.event]

(* C18: a failing event handler fails the dispatch. If an event handler invoked
   by a handleCommand call throws, or is asynchronous and rejects, the call has
   failed with the handler's failure and the handler is the last one the
   dispatch invoked; what the handlers invoked before it saved stays saved. *)
C18_HandlerFailurePropagates ==
    \A p \in Procs :
      calls[p].op = "handleCommand" =>
        \A i \in Positions(calls[p].trace, "eventHandler") :
          LET entry == calls[p].trace[i] IN
          /\ EventHandlerThrows(entry.fn) \/ PromiseOf(entry) \in unhandled =>
               /\ calls[p].pc = "failed"
               /\ calls[p].error = "event handler failed"
               /\ i = Len(calls[p].trace)
          /\ EventHandlerThrows(entry.fn) =>
               \A j \in Positions(calls[p].trace, "eventHandler") :
                 /\ j < i
                 /\ EventHandlerStores(calls[p].trace[j].fn)
                 /\ ~EventHandlerIsAsync(calls[p].trace[j].fn)
                 => calls[p].trace[j].event \in Range(eventStore)

(* C20: handleCommand waits for its asynchronous event handlers. While the
   promise of an event handler a dispatch invoked is pending, the call has not
   resolved and the dispatch has invoked no further handler; so when the call
   has resolved, every event its saving handlers were given is in the store. *)
C20_ResolvesAfterSideEffects ==
    \A p \in Procs :
      calls[p].op = "handleCommand" =>
        \A i \in Positions(calls[p].trace, "eventHandler") :
          LET entry == calls[p].trace[i] IN
          /\ EventHandlerIsAsync(entry.fn) /\ PromiseOf(entry) \in Range(pending) =>
               /\ calls[p].pc # "done"
               /\ i = Len(calls[p].trace)
          /\ calls[p].pc = "done" /\ EventHandlerStores(entry.fn) =>
               entry.event \in Range(eventStore)

----------------------------------------------------------------------------
(* C21: concurrent calls do not interfere inside the engine. With the registries
   fixed, however the in-flight createState and handleCommand calls of two
   callers interleave at their awaits, each call folds the event sequence its
   own loader invocation returned and then its own new events and nothing else,
   and yields the state it would yield when run alone on that sequence: the
   command handler sees the fold of the call's own history, and the call returns
   that state extended by the fold of the events its own handler returned. *)
OwnEvents(p) == Range(calls[p].loaded) \cup Range(calls[p].newEvents)

C21_NoInterference ==
    \A p \in Procs :
       LET call == calls[p]
           alone == RefFold(call.context, call.loaded, NullState)
       IN /\ call.op = "createState" /\ call.pc = "done" => call.result = alone
          /\ call.op = "handleCommand" /\ call.pc = "awaitState" => call.state = alone
          /\ call.op = "handleCommand" /\ call.pc \in {"done", "failed"}
                /\ call.handler # NoHandler =>
                /\ call.state0 = alone
                /\ \A i \in Positions(call.trace, "handle") : call.trace[i].state = alone
                /\ call.newEvents =
                     ApplyCommandHandler(call.handler.handle, call.command.data, alone).events
                /\ call.pc = "done" =>
                      call.result = RefFold(call.context, call.newEvents, alone)
          /\ \A i \in Positions(call.trace, "rebuild") : call.trace[i].event \in OwnEvents(p)

(* Both callers have finished overlapping calls in the same context, a dispatch
   and a reconstruction, on different histories and with different results. *)
C21_Witness ==
    /\ calls["p1"].op = "handleCommand" /\ calls["p1"].pc = "done"
    /\ calls["p2"].op = "createState" /\ calls["p2"].pc = "done"
    /\ calls["p1"].context = calls["p2"].context
    /\ calls["p1"].newEvents # <<>>
    /\ calls["p1"].loaded # calls["p2"].loaded
    /\ calls["p1"].state0 # NullState
    /\ calls["p2"].result # NullState
    /\ calls["p2"].result # calls["p1"].state0

----------------------------------------------------------------------------
(* The state the call of caller p computes if its loader answers with `events`
   now. *)
InFlight(p, events) == createStateEnd(calls[p], events).state

(* A step taken while the call of caller p stays suspended on its loader. *)
Suspended(p) == calls[p].pc = "awaitLoad" /\ calls'[p].pc = "awaitLoad" /\ ops' # ops

(* C22 (as claimed): reconstruction is a function of the loader's output and of
   the registries as they are at call time: whatever is registered or set while
   a call is suspended on its loader, the state the call computes from any
   answer of the loader stays the same. *)
C22_RegistriesAsOfCallTime ==
    [][\A p \in Procs :
         Suspended(p) => \A events \in Histories : InFlight(p, events)' = InFlight(p, events)]_vars

(* C22 (amended): only the loader is taken from the registries at call time;
   rebuilders are looked up when the loader has answered. While a call is
   suspended on its loader no registration and no setSource touches the call,
   and the loader invoked stays the one found at the call; when the loader
   answers, the call folds the answer through the rebuilders registered by then,
   those registered during the suspension included, so that the state is a
   function of the answer and of the rebuilders as they are at the answer. *)
C22_RegistriesAsOfTheAnswer ==
    [][\A p \in Procs :
         /\ Suspended(p) => calls'[p] = calls[p]
         /\ Loaded(p) =>
               /\ calls'[p].trace[1] = calls[p].trace[1]
               /\ calls'[p].state = RefFold(calls[p].context, calls'[p].folded, NullState)]_vars

(* A call has returned a state built by a rebuilder, and the loader it invoked
   is no longer the one registered for its context: a loader was registered
   while the call was suspended. *)
C22_Witness ==
    \E p \in Procs :
       /\ calls[p].pc = "done"
       /\ calls[p].result # NullState
       /\ Positions(calls[p].trace, "load") = {1}
       /\ Has(stateLoader, calls[p].context)
       /\ stateLoader[calls[p].context].load # calls[p].trace[1].fn

----------------------------------------------------------------------------
(* C23: registerStateLoadingFunction never fails and is last-writer-wins per
   context: it reports no error, makes its loader the loader of the context
   whatever was registered for it before, and leaves the loaders of the other
   contexts as they are; a createState or handleCommand call invokes, once and
   with its subjects, exactly the loader that the registry holds for its context
   when it is called, and never a loader of another context. *)
C23_LastLoaderWins ==
    [][/\ ops' # ops /\ UNCHANGED <<source, commands, stateRebuilder, eventHandler,
                                      upcastHandler, calls>> =>
          \A c \in Contexts, f \in LoaderFns :
             registerStateLoadingFunction(c, f) =>
               /\ regError' = NoError
               /\ Has(stateLoader', c)
               /\ stateLoader'[c] = [load |-> f, context |-> c]
               /\ \A other \in Contexts \ {c} :
                     /\ Has(stateLoader', other) <=> Has(stateLoader, other)
                     /\ Has(stateLoader, other) => stateLoader'[other] = stateLoader[other]
       /\ \A p \in Procs :
             /\ calls'[p] # calls[p] /\ calls'[p].pc = "awaitLoad" =>
                   /\ Has(stateLoader, calls'[p].context)
                   /\ Len(calls'[p].trace) = 1
                   /\ calls'[p].trace[1].op = "load"
                   /\ calls'[p].trace[1].fn = stateLoader[calls'[p].context].load
                   /\ calls'[p].trace[1].context = calls'[p].context
                   /\ calls'[p].trace[1].subjects = calls'[p].subjects
             /\ Positions(calls'[p].trace, "load") \subseteq {1}
             /\ calls'[p].pc # "awaitLoad" /\ calls'[p].trace # <<>>
                   /\ calls'[p].trace[1].op = "load" /\ calls[p].trace # <<>> =>
                   calls'[p].trace[1] = calls[p].trace[1]]_vars

(* Both contexts have a loader, a different one each, and a call in one context
   has invoked the loader of its own context. *)
C23_Witness ==
    \E p \in Procs :
       /\ calls[p].pc = "done"
       /\ Positions(calls[p].trace, "load") = {1}
       /\ \A c \in Contexts : Has(stateLoader, c)
       /\ calls[p].trace[1].fn = stateLoader[calls[p].context].load
       /\ \E c \in Contexts : stateLoader[c].load # calls[p].trace[1].fn

----------------------------------------------------------------------------
(* C24: event handlers are keyed by the event type alone. The registry has one
   list per type, and in a dispatch that completes, every materialized event is
   handed to every handler registered for its type, once per registration,
   whatever the context of the command handler that produced the event and
   whether or not that context has a rebuilder for the type; handlers registered
   for the same type by several registration calls are all invoked. *)
HandlersOf(type) == IF Has(eventHandler, type) THEN eventHandler[type] ELSE <<>>

C24_HandlersKeyedByType ==
    /\ [][\A p \in Procs :
            Resumes(p) /\ calls'[p].pc = "done" =>
              \A i \in 1..Len(calls'[p].cloudEvents) :
                 LET cloudEvent == calls'[p].cloudEvents[i]
                     list == HandlersOf(cloudEvent.type)
                     invoked == SelectSeq(calls'[p].trace,
                                          LAMBDA e : /\ e.op = "eventHandler"
                                                     /\ e.event = cloudEvent)
                 IN /\ Len(invoked) = Len(list)
                    /\ \A j \in 1..Len(list) :
                          /\ invoked[j].fn = list[j].eventHandler
                          /\ invoked[j].type = cloudEvent.type]_vars
    /\ [](\A t \in DOMAIN eventHandler :
            /\ t \in EventTypes
            /\ \A j \in 1..Len(eventHandler[t]) : eventHandler[t][j].type = t)

(* A dispatch under a context that has no rebuilder for the type of one of its
   events has handed that event to two handlers registered for the type. *)
C24_Witness ==
    \E p \in Procs :
       /\ calls[p].op = "handleCommand" /\ calls[p].pc = "done"
       /\ \E i \in 1..Len(calls[p].cloudEvents) :
             LET cloudEvent == calls[p].cloudEvents[i] IN
             /\ RebuildersFor(calls[p].handler.context, cloudEvent.type) = {}
             /\ \E j, k \in Positions(calls[p].trace, "eventHandler") :
                   /\ calls[p].trace[j].event = cloudEvent
                   /\ calls[p].trace[k].event = cloudEvent
                   /\ calls[p].trace[j].fn # calls[p].trace[k].fn

----------------------------------------------------------------------------
(* C25: when no state loader is registered for the context, the history is
   treated as empty. A createState call for such a context has returned the
   absent state without failing and without invoking a loader, an upcaster or a
   rebuilder; a handleCommand call whose handler's context has no loader waits
   for no loader, and its command handler is invoked first and with the absent
   state. (A loader is never unregistered, so a context without a loader now had
   none when the call was made.) *)
C25_NoLoaderMeansEmptyHistory ==
    \A p \in Procs :
       LET call == calls[p] IN
       /\ call.op = "createState" \/ (call.op = "handleCommand" /\ call.handler # NoHandler)
       /\ ~Has(stateLoader, call.context)
       => /\ call.pc # "awaitLoad"
          /\ call.loaded = <<>>
          /\ Positions(call.trace, "load") = {}
          /\ Positions(call.trace, "upcast") = {}
          /\ call.error # "loader failed"
          /\ call.op = "createState" =>
                /\ call.pc = "done"
                /\ call.error = NoError
                /\ call.result = NullState
                /\ call.trace = <<>>
          /\ call.op = "handleCommand" =>
                /\ call.pc = "awaitState" => call.state = NullState /\ call.trace = <<>>
                /\ call.pc \in {"done", "failed"} =>
                      /\ call.trace # <<>>
                      /\ call.trace[1].op = "handle"
                      /\ call.trace[1].state = NullState
                      /\ call.state0 = NullState

(* A dispatch under a context without a loader has completed and returned a
   state built from its new events alone, while the other context has a
   loader. *)
C25_Witness ==
    \E p \in Procs :
       /\ calls[p].op = "handleCommand" /\ calls[p].pc = "done"
       /\ ~Has(stateLoader, calls[p].context)
       /\ \E c \in Contexts : Has(stateLoader, c)
       /\ calls[p].trace # <<>>
       /\ calls[p].trace[1].op = "handle"
       /\ calls[p].trace[1].state = NullState
       /\ calls[p].result # NullState

----------------------------------------------------------------------------
(* The phase of a successful dispatch that the i-th invocation of `trace`
   belongs to, h being the position of the command handler invocation. *)
Phase(trace, i, h) ==
    CASE trace[i].op = "load" -> 1
      [] trace[i].op = "upcast" -> 2
      [] trace[i].op = "rebuild" /\ i < h -> 3
      [] trace[i].op = "handle" -> 4
      [] trace[i].op = "rebuild" /\ i > h -> 5
      [] OTHER -> 6

EventsOf(trace, from, to) == [i \in 1..(to - from + 1) |-> trace[from + i - 1].event]

(* C26: within one successful handleCommand call the collaborator invocations
   come in this order and multiplicity: the loader of the handler's context once,
   with command.subjects; then the upcasters and then the rebuilders over the
   history, one rebuilder invocation per historical event that has a rebuilder,
   in history order; then the command handler once; then the rebuilders for the
   new events in emission order; then the event handlers, event by event in
   emission order, all handlers of one event before any handler of the next. No
   invocation of a later phase comes before one of an earlier phase. *)
C26_InvocationOrder ==
    \A p \in Procs :
       LET call == calls[p]
           trace == call.trace
           handles == Positions(trace, "handle")
       IN call.op = "handleCommand" /\ call.pc = "done" /\ call.handler # NoHandler =>
          /\ Cardinality(handles) = 1
          /\ LET h == CHOOSE i \in handles : TRUE
                 rebuilds == Positions(trace, "rebuild")
                 history == {i \in rebuilds : i < h}
                 new == {i \in rebuilds : i > h}
                 fanned == Positions(trace, "eventHandler")
                 Index(event) == CHOOSE i \in 1..Len(call.cloudEvents) :
                                    call.cloudEvents[i] = event
             IN /\ \A i, j \in 1..Len(trace) : i < j => Phase(trace, i, h) <= Phase(trace, j, h)
                /\ Positions(trace, "load") = IF Has(stateLoader, call.handler.context)
                                              THEN {1} ELSE {}
                /\ \A i \in Positions(trace, "load") :
                      /\ trace[i].fn = stateLoader[call.handler.context].load
                      /\ trace[i].subjects = call.command.subjects
                /\ LET first == h - Cardinality(history) IN
                   /\ history = first..(h - 1)
                   /\ EventsOf(trace, first, h - 1) =
                        KnownEvents(call.handler.context, call.folded)
                /\ trace[h].fn = call.handler.handle
                /\ trace[h].data = call.command.data
                /\ new = (h + 1)..(h + Cardinality(new))
                /\ EventsOf(trace, h + 1, h + Cardinality(new)) =
                     KnownEvents(call.handler.context, call.newEvents)
                /\ \A i \in fanned : trace[i].event \in Range(call.cloudEvents)
                /\ \A i, j \in fanned :
                      i < j => Index(trace[i].event) <= Index(trace[j].event)
                /\ \A k \in 1..Len(call.cloudEvents) :
                      Cardinality({i \in fanned : trace[i].event = call.cloudEvents[k]})
                        = Len(HandlersOf(call.cloudEvents[k].type))

(* A successful dispatch with every phase: a loader invocation, a rebuilder
   invocation over the history, the command handler, rebuilder invocations for
   two new events, and event handler invocations for both of them, two for the
   first. *)
C26_Witness ==
    \E p \in Procs :
       LET call == calls[p]
           trace == call.trace
       IN /\ call.op = "handleCommand" /\ call.pc = "done"
          /\ Len(call.cloudEvents) = 2
          /\ Positions(trace, "load") = {1}
          /\ \E h \in Positions(trace, "handle") :
                /\ \E i \in Positions(trace, "rebuild") : i < h
                /\ Cardinality({i \in Positions(trace, "rebuild") : i > h}) = 2
          /\ Cardinality({i \in Positions(trace, "eventHandler") :
                            trace[i].event = call.cloudEvents[1]}) = 2
          /\ \E i \in Positions(trace, "eventHandler") : trace[i].event = call.cloudEvents[2]

----------------------------------------------------------------------------
(* The keys a step has written in a registry: the keys whose entry is new or
   differs from the one before. *)
Written(before, after) == {k \in DOMAIN after : ~Has(before, k) \/ before[k] # after[k]}

(* The step from `before` to `after` adds an entry under the new key k and does
   nothing else to the registry. *)
Adds(before, after, k) ==
    /\ ~Has(before, k)
    /\ DOMAIN after = DOMAIN before \cup {k}
    /\ \A other \in DOMAIN before : after[other] = before[other]

(* C27: registries are read-only for dispatch and grow only by registration. A
   step either leaves the five registries and the default source as they are, or
   it is a registration that succeeds, no step of a handleCommand or createState
   call, and changes exactly one of the six: the source, or one registry. A
   change of the command handler, state rebuilder or upcaster registry adds one
   entry under a new key and removes or replaces none; a change of the event
   handler registry appends one handler to the list of one type; a change of the
   state loader registry sets the loader of one context. *)
C27_RegistriesFrame ==
    [][\/ UNCHANGED registries
       \/ /\ calls' = calls
          /\ ops' # ops
          /\ regError' = NoError
          /\ \/ /\ UNCHANGED <<commands, stateRebuilder, eventHandler, upcastHandler,
                                stateLoader>>
                /\ source' \in Sources
             \/ /\ UNCHANGED <<source, stateRebuilder, eventHandler, upcastHandler,
                                stateLoader>>
                /\ \E k \in DOMAIN commands' : Adds(commands, commands', k)
             \/ /\ UNCHANGED <<source, commands, eventHandler, upcastHandler, stateLoader>>
                /\ \E k \in DOMAIN stateRebuilder' :
                      Adds(stateRebuilder, stateRebuilder', k)
             \/ /\ UNCHANGED <<source, commands, stateRebuilder, upcastHandler,
                                stateLoader>>
                /\ \E k \in DOMAIN eventHandler' :
                      /\ Written(eventHandler, eventHandler') = {k}
                      /\ DOMAIN eventHandler' = DOMAIN eventHandler \cup {k}
                      /\ Front(eventHandler'[k]) = HandlersOf(k)
             \/ /\ UNCHANGED <<source, commands, stateRebuilder, eventHandler, stateLoader>>
                /\ \E k \in DOMAIN upcastHandler' : Adds(upcastHandler, upcastHandler', k)
             \/ /\ UNCHANGED <<source, commands, stateRebuilder, eventHandler,
                                upcastHandler>>
                /\ \E k \in DOMAIN stateLoader' :
                      /\ Written(stateLoader, stateLoader') = {k}
                      /\ DOMAIN stateLoader' = DOMAIN stateLoader \cup {k}]_vars

(* A registration has failed after the source was set, event handlers were
   registered and a dispatch was completed, and the registries still hold what
   was registered. *)
C27_Witness ==
    /\ regError # NoError
    /\ source # DefaultSource
    /\ commands # EmptyMap
    /\ \E p \in Procs : /\ calls[p].op = "handleCommand" /\ calls[p].pc = "done"
                         /\ calls[p].handler # NoHandler

----------------------------------------------------------------------------
(* C28: registration keys are injective. registerStateRebuilder and
   registerUpcaster report a conflict exactly when the same (context, type) pair
   was registered before: registrations for two distinct pairs both succeed,
   also when a context or a type contains '|', '[' or ']'; and a rebuilder is
   invoked only for events of its own type replayed under its own context. *)
C28_KeysInjective ==
    /\ [][ops' # ops /\ calls' = calls =>
            /\ \A t \in KeyTypes, c \in KeyContexts, f \in RebuilderFns :
                  registerStateRebuilder(t, c, f) =>
                    (regError' # NoError <=> RebuildersFor(c, t) # {})
            /\ \A t \in KeyTypes, c \in KeyContexts :
                  registerUpcaster(t, c, "u1") =>
                    (regError' # NoError <=> UpcastersFor(c, t) # {})]_vars
    /\ [](\A p \in Procs :
            \A i \in Positions(calls[p].trace, "rebuild") :
               /\ calls[p].trace[i].context = calls[p].context
               /\ calls[p].trace[i].type = calls[p].trace[i].event.type)

----------------------------------------------------------------------------
(* C29: replay has no side effects. A createState call, standalone or as the
   reconstruction step of handleCommand, invokes only the loader, upcasters and
   rebuilders: no command handler and no event handler is invoked before the
   reconstruction has ended, a standalone call invokes none at all, and an event
   handler is only ever handed a materialized new event, never a historical one.
   The sequence the loader returned stays as it was returned, with its events
   unchanged, for the rest of the call; the upcast events exist beside it; and
   the reconstruction writes nothing to the event store. *)
ReplayOps == {"load", "upcast", "rebuild"}

C29_ReplayHasNoSideEffects ==
    /\ [](\A p \in Procs :
            LET call == calls[p]
                trace == call.trace
                replayed == IF Positions(trace, "handle") = {} THEN Len(trace)
                            ELSE (CHOOSE i \in Positions(trace, "handle") : TRUE) - 1
            IN /\ call.op = "createState" \/ call.pc \in {"awaitLoad", "awaitState"} =>
                     replayed = Len(trace)
               /\ \A i \in 1..replayed : trace[i].op \in ReplayOps
               /\ \A i \in Positions(trace, "eventHandler") :
                     /\ trace[i].event \in Range(call.cloudEvents)
                     /\ trace[i].event \notin Range(call.loaded) \cup Range(call.folded))
    /\ [][\A events \in UpcastHistories :
            loaderResolves("p1", events) =>
              /\ calls'["p1"].loaded = events
              /\ UNCHANGED world]_vars
    /\ [][\A p \in Procs : Resumes(p) => calls'[p].loaded = calls[p].loaded]_vars

(* A dispatch has completed whose history was upcast: the sequence the loader
   returned differs from the sequence that was folded, and the event handler
   was invoked for the new event. *)
C29_Witness ==
    \E p \in Procs :
       /\ calls[p].op = "handleCommand" /\ calls[p].pc = "done"
       /\ Len(calls[p].loaded) = 2
       /\ calls[p].loaded # calls[p].folded
       /\ Positions(calls[p].trace, "upcast") # {}
       /\ Positions(calls[p].trace, "eventHandler") # {}

----------------------------------------------------------------------------
(* The events the upcasters of a call were invoked with, in invocation order. *)
UpcastInputs(p) ==
    LET entries == SelectSeq(calls[p].trace, LAMBDA e : e.op = "upcast") IN
    [i \in 1..Len(entries) |-> entries[i].event]

(* C30: upcasting is applied exactly once to each loaded historical event per
   reconstruction and nowhere else. The upcasters of a call are invoked with
   loaded events only, once per loaded event whose type has an upcaster and in
   history order; the event folded for a loaded event is the output of that one
   invocation, as it is, also when an upcaster exists for the output's type, or
   the loaded event itself; every upcaster invocation precedes the command
   handler, and the new events are folded and materialized with the type and
   data the command handler gave them. *)
C30_UpcastOnceAndOnlyHistory ==
    \A p \in Procs :
       LET call == calls[p]
           trace == call.trace
           inputs == UpcastInputs(p)
       IN call.pc \in {"awaitState", "done"} =>
          /\ inputs = SelectSeq(call.loaded, LAMBDA e : Has(upcastHandler, e.type))
          /\ Len(call.folded) = Len(call.loaded)
          /\ \A i \in 1..Len(call.loaded) :
                LET used == {j \in Positions(trace, "upcast") : trace[j].event = call.loaded[i]}
                IN call.folded[i] =
                     IF used = {} THEN call.loaded[i]
                     ELSE ApplyUpcaster(trace[CHOOSE j \in used : TRUE].fn, call.loaded[i])
          /\ \A h \in Positions(trace, "handle") :
                /\ \A j \in Positions(trace, "upcast") : j < h
                /\ \A j \in Positions(trace, "rebuild") :
                      j > h => trace[j].event \in Range(call.newEvents)
          /\ Len(call.cloudEvents) = Len(call.newEvents)
          /\ \A i \in 1..Len(call.newEvents) :
                /\ call.cloudEvents[i].type = call.newEvents[i].type
                /\ call.cloudEvents[i].data = call.newEvents[i].data

(* A dispatch has completed in which a loaded event was upcast to a type that
   has an upcaster of its own, and the new event, folded by a rebuilder, is of a
   type that has an upcaster too. *)
C30_Witness ==
    \E p \in Procs :
       LET call == calls[p] IN
       /\ call.op = "handleCommand" /\ call.pc = "done"
       /\ \E i \in 1..Len(call.loaded) :
             /\ call.folded[i] # call.loaded[i]
             /\ Has(upcastHandler, call.folded[i].type)
       /\ \E i \in 1..Len(call.newEvents) :
             /\ Has(upcastHandler, call.newEvents[i].type)
             /\ \E j \in Positions(call.trace, "rebuild") :
                   call.trace[j].event = call.newEvents[i]

----------------------------------------------------------------------------
(* The event handlers registered for Borrowed that save the event to the
   store. *)
Appenders ==
    {i \in 1..Len(HandlersOf("Borrowed")) :
       EventHandlerStores(HandlersOf("Borrowed")[i].eventHandler)}

(* The query of caller p2 returns what the last dispatch of caller p1 returned. *)
SameAsDispatched ==
    /\ calls'["p2"].pc = "done"
    /\ calls'["p2"].error = NoError
    /\ calls'["p2"].result = calls["p1"].result

(* C31 as stated: round trip between write side and read side. The type of every
   event the command handler emits has an event handler that saves the
   materialized event to the store during the dispatch, the loader returns the
   stored events of the requested subjects in the order they were saved, the
   emitted events have a subject of the command, and no upcaster is registered.
   Then a createState for the handler's context and the command's subjects that
   follows a successful handleCommand returns the state that handleCommand
   returned, after any number of dispatches made one after the other. *)
C31_RoundTripAsStated ==
    [][/\ Loaded("p2")
       /\ calls["p1"].op = "handleCommand" /\ calls["p1"].pc = "done"
       /\ \E i \in Appenders : ~EventHandlerIsAsync(HandlersOf("Borrowed")[i].eventHandler)
       => SameAsDispatched]_vars

(* C31 amended: the round trip holds when each materialized event is saved to
   the store exactly once, that is, when the handler that saves it during the
   dispatch is the only handler of its type that saves it; handlers that save
   nothing may be registered beside it. *)
C31_RoundTrip ==
    [][/\ Loaded("p2")
       /\ calls["p1"].op = "handleCommand" /\ calls["p1"].pc = "done"
       /\ Cardinality(Appenders) = 1
       /\ \A i \in Appenders : ~EventHandlerIsAsync(HandlersOf("Borrowed")[i].eventHandler)
       => SameAsDispatched]_vars

(* Two dispatches have saved their events, a handler that saves nothing is
   registered beside the saving one, and the query that followed has read the
   whole store and returned the state of the last dispatch. *)
C31_Witness ==
    /\ calls["p1"].op = "handleCommand" /\ calls["p1"].pc = "done"
    /\ calls["p2"].op = "createState" /\ calls["p2"].pc = "done"
    /\ Cardinality(Appenders) = 1
    /\ Len(eventStore) = 3
    /\ calls["p2"].loaded = eventStore
    /\ eventStore[3] = calls["p1"].cloudEvents[1]
    /\ Len(eventHandler["Borrowed"]) = 2
    /\ calls["p2"].result = calls["p1"].result
    /\ calls["p2"].result # NullState

====
